---- MODULE Spec2Model ----
(***************************************************************************)
(* shout.sh: the stream admission controller (types.ConnectionManager),    *)
(* the animated-stream entry point (partyHandler / streamAnimated) and     *)
(* the stream writer that fasthttp runs for SetBodyStreamWriter.           *)
(*                                                                         *)
(* The specifications share one state space:                               *)
(*   SpecSeq  the ConnectionManager API called one call at a time;         *)
(*   SpecCM   the ConnectionManager API called by concurrent goroutines,   *)
(*            TryAcquire interleaved at its two atomic operations;         *)
(*   Spec     concurrent party requests: handler goroutine, stream writer  *)
(*            goroutine and deadline timer of every request;               *)
(*   FairSpec Spec with weak fairness of every handler goroutine;          *)
(*   LiveSpec Spec with every goroutine and timer scheduled fairly;        *)
(*   SpecShutdown  gracefulShutdown running beside the requests, with      *)
(*            FairShutdownSpec and LiveShutdownSpec as its fair forms;     *)
(*   SpecFonts     render.FontCache: LoadFonts and the lookups;            *)
(*   SpecPure      one call of a pure function: the effective timeout,     *)
(*            calculateFrameDelay, getAnimatedColor.                       *)
(***************************************************************************)
EXTENDS Integers, Sequences, FiniteSets, TLC

\* ------------------------------------------------------------------ bounds

\* Largest capacity a ConnectionManager is constructed with.
MaxCap == 2
\* Calls made on the ConnectionManager API in SpecSeq and SpecCM.
MaxCalls == 5
\* Goroutines calling the ConnectionManager API concurrently in SpecCM.
NumClients == 2
\* Concurrent party requests in Spec.
NumSessions == 2
\* Frames one stream writer renders before the model stops ticking.
MaxFrames == 2

Capacities == (0 - 1) .. MaxCap
Clients == 1 .. NumClients
Sessions == 1 .. NumSessions

\* -------------------------------------------------------- program constants

MaxSpeed == 10
MaxTextLength == 100
DefaultFont == "doom"

VARIABLES
    \* types.ConnectionManager
    activeStreams, maxStreams,
    \* SpecSeq: the calls made so far, each with its result
    trace,
    \* SpecCM: per goroutine, the position inside TryAcquire, its local
    \* `current`, its pending return value; completed-call counters
    cpc, ccurrent, cret, nCalls, nTrue, nReleased,
    \* Spec: Metrics, the font cache, and per request: handler position,
    \* TryAcquire's local `current`, the response, increments and Releases
    \* done for the request, the stream writer goroutine, its frame counter,
    \* the deadline timer and what was written to the body stream
    metrics, fontCache,
    pc, current, resp, acquired, released, sw, frame, timer, out,
    \* SpecPure: the last call of a pure function, its arguments and result
    pure,
    \* SpecShutdown: the position of gracefulShutdown and whether the grace
    \* period it grants to active streams is over
    gs, graceOver,
    \* SpecFonts: the files on disk, render.FontCache.fonts, the last
    \* LoadFonts call and the result of the last lookup
    fs, fcFonts, lastLoad, lookup,
    \* SpecRender: whether the *FontCache handed to GenerateASCII is nil,
    \* and the Fonts.Default setting of the configuration
    cacheNil, cfgDefault,
    \* SpecRender: the GenerateASCII call that has looked its font up and
    \* has not rendered yet
    gen,
    \* SpecConfig, SpecConfigSeq: package config, that is the process
    \* environment, the .env file, once, instance, loadErr and the calls
    conf,
    \* SpecFontsRW: FontCache.mu, the position of each goroutine that calls
    \* the cache, the LoadFonts call of each writer, what each reader read,
    \* and the contents when the write lock was last free
    mu, lpc, lload, seen, committed

cmVars == <<activeStreams, maxStreams>>
seqVars == <<trace>>
clientVars == <<cpc, ccurrent, cret, nCalls, nTrue, nReleased>>
sessVars == <<metrics, fontCache, pc, current, resp, acquired, released,
              sw, frame, timer, out>>
pureVars == <<pure>>
shutdownVars == <<gs, graceOver>>
renderVars == <<cacheNil, cfgDefault, conf, gen>>
lockVars == <<mu, lpc, lload, seen, committed>>
fontVars == <<fs, fcFonts, lastLoad, lookup, renderVars, lockVars>>
auxVars == <<pureVars, shutdownVars, fontVars>>
vars == <<cmVars, seqVars, clientVars, sessVars, auxVars>>

\* ------------------------------------------------------- ConnectionManager

\* NewConnectionManager(maxStreams): activeStreams is the zero value.
NewConnectionManager(m) == [activeStreams |-> 0, maxStreams |-> m]

\* atomic.LoadInt64(&cm.activeStreams)
AtomicLoad(v) == v

\* Mutants of TryAcquireStep: `>` for `>=`, and an add made before the
\* comparison.
TryAcquireStepOffByOne(cur, active, max) ==
    IF cur > max THEN [ret |-> FALSE, active |-> active]
    ELSE [ret |-> TRUE, active |-> active + 1]
TryAcquireStepAddsFirst(cur, active, max) ==
    IF cur >= max THEN [ret |-> FALSE, active |-> active + 1]
    ELSE [ret |-> TRUE, active |-> active + 1]

\* Mutant of TryAcquireStep: the limit is enforced for positive capacities
\* only.
TryAcquireStepUnlimitedAtZero(cur, active, max) ==
    IF cur >= max /\ max > 0 THEN [ret |-> FALSE, active |-> active]
    ELSE [ret |-> TRUE, active |-> active + 1]

\* TryAcquire after its load: `cur` is the value loaded, `active` the
\* counter at the moment of the atomic add.
TryAcquireStep(cur, active, max) ==
    IF cur >= max THEN [ret |-> FALSE, active |-> active]
    ELSE [ret |-> TRUE, active |-> active + 1]

\* Mutant of ReleaseStep: a Release that refuses to go below zero.
ReleaseStepClamped(active) == IF active > 0 THEN active - 1 ELSE active

\* Release: atomic.AddInt64(&cm.activeStreams, -1)
ReleaseStep(active) == active - 1

\* GetActiveCount: atomic.LoadInt64(&cm.activeStreams)
GetActiveCount == AtomicLoad(activeStreams)

\* ------------------------------------------------------------------- Init

CMInit ==
    \E m \in Capacities :
        /\ activeStreams = NewConnectionManager(m).activeStreams
        /\ maxStreams = NewConnectionManager(m).maxStreams

SeqInit == trace = <<>>

ClientInit ==
    /\ cpc = [c \in Clients |-> "idle"]
    /\ ccurrent = [c \in Clients |-> 0]
    /\ cret = [c \in Clients |-> FALSE]
    /\ nCalls = 0
    /\ nTrue = 0
    /\ nReleased = 0

FontCaches == {{}, {"doom"}}

SessInit ==
    /\ metrics = [PartyRequests |-> 0, RejectedStreams |-> 0,
                  TotalErrors |-> 0, ActiveStreams |-> 0]
    /\ fontCache \in FontCaches
    /\ pc = [s \in Sessions |-> "start"]
    /\ current = [s \in Sessions |-> 0]
    /\ resp = [s \in Sessions |-> [status |-> 0, body |-> <<>>]]
    /\ acquired = [s \in Sessions |-> 0]
    /\ released = [s \in Sessions |-> 0]
    /\ sw = [s \in Sessions |-> "none"]
    /\ frame = [s \in Sessions |-> 0]
    /\ timer = [s \in Sessions |-> "none"]
    /\ out = [s \in Sessions |-> <<>>]

\* No pure function has been called yet.
PureInit ==
    pure = [fn |-> "none", scheme |-> "", a |-> 0, b |-> 0, c |-> 0,
            res |-> 0]

\* gracefulShutdown is blocked on the signal channel.
ShutdownInit ==
    /\ gs = "running"
    /\ graceOver = FALSE

\* The directories fonts are loaded from and the names an allow-list holds.
FontDirs == {"./fonts", "/alt", "/locked"}
FontNames == {"standard", "doom", "missing-file"}
\* filepath.Join(cfg.Path, fontName+".flf"): the directory, the name and
\* the extension.
FontPath(dir, name) == <<dir, name, ".flf">>
FontPaths == {FontPath(d, n) : d \in FontDirs, n \in FontNames}
\* What is on disk at a path: a readable file, a directory, a file that
\* cannot be opened, nothing, or something os.Stat cannot examine (the
\* directory /locked cannot be searched). No step changes the disk.
DiskA ==
    [p \in FontPaths |->
        CASE p = FontPath("./fonts", "standard") -> "file"
          [] p = FontPath("./fonts", "doom") -> "file"
          [] p = FontPath("/alt", "standard") -> "file"
          [] p = FontPath("/alt", "doom") -> "dir"
          [] p = FontPath("/alt", "missing-file") -> "noperm"
          [] p[1] = "/locked" -> "staterr"
          [] OTHER -> "absent"]

\* A nil *Font, and the empty map[string]*Font.
NilFont == [Name |-> "", fontPath |-> <<>>]
EmptyFonts == [n \in {} |-> NilFont]

\* ------------------------------------------------- package config: data

\* Strings of the environment are sequences of tokens: a token is one
\* character ("=", "-", a digit) or a run of characters without "=" that
\* is never looked into (a variable name, a word).
\* The fields of Config that Validate reads, and Streaming.BufferSize, the
\* int field it does not read, with their environment variables
\* (envPrefix + env of the struct tags) and envDefault values. The other
\* fields are strings and lists of strings, which always parse.
ConfigFields ==
    {"PublicPort", "AdminPort", "RequestsPerMinute", "Burst", "MaxLength",
     "DefaultAlign", "DefaultTimeout", "MaxTimeout", "DefaultSpeed",
     "BufferSize"}
IntFields == ConfigFields \ {"DefaultAlign"}
EnvName(f) ==
    CASE f = "PublicPort" -> "SHOUT_SERVER_PUBLIC_PORT"
      [] f = "AdminPort" -> "SHOUT_SERVER_ADMIN_PORT"
      [] f = "RequestsPerMinute" -> "SHOUT_RATELIMIT_REQUESTS_PER_MINUTE"
      [] f = "Burst" -> "SHOUT_RATELIMIT_BURST"
      [] f = "MaxLength" -> "SHOUT_TEXT_MAX_LENGTH"
      [] f = "DefaultAlign" -> "SHOUT_TEXT_DEFAULT_ALIGN"
      [] f = "DefaultTimeout" -> "SHOUT_STREAMING_DEFAULT_TIMEOUT"
      [] f = "MaxTimeout" -> "SHOUT_STREAMING_MAX_TIMEOUT"
      [] f = "DefaultSpeed" -> "SHOUT_STREAMING_DEFAULT_SPEED"
      [] f = "BufferSize" -> "SHOUT_STREAMING_BUFFER_SIZE"
EnvDefault(f) ==
    CASE f = "PublicPort" -> <<"8", "0", "8", "0">>
      [] f = "AdminPort" -> <<"9", "0", "9", "0">>
      [] f = "RequestsPerMinute" -> <<"1", "0", "0">>
      [] f = "Burst" -> <<"1", "0">>
      [] f = "MaxLength" -> <<"1", "0", "0">>
      [] f = "DefaultAlign" -> <<"center">>
      [] f = "DefaultTimeout" -> <<"3", "0">>
      [] f = "MaxTimeout" -> <<"3", "0", "0">>
      [] f = "DefaultSpeed" -> <<"5">>
      [] f = "BufferSize" -> <<"4", "0", "9", "6">>

\* &Config{}: every field has its zero value.
ZeroConfig ==
    [f \in ConfigFields |-> IF f \in IntFields THEN 0 ELSE <<>>]

\* The decimal digits and their values.
DigitValue ==
    [d \in {"0", "1", "2", "3", "4", "5", "6", "7", "8", "9"} |->
        CASE d = "0" -> 0 [] d = "1" -> 1 [] d = "2" -> 2 [] d = "3" -> 3
          [] d = "4" -> 4 [] d = "5" -> 5 [] d = "6" -> 6 [] d = "7" -> 7
          [] d = "8" -> 8 [] d = "9" -> 9]

\* The number written by the digits ds, after the digits that gave acc.
RECURSIVE DigitsValue(_, _)
DigitsValue(ds, acc) ==
    IF ds = <<>> THEN acc
    ELSE DigitsValue(Tail(ds), 10 * acc + DigitValue[Head(ds)])

\* strconv.ParseInt(v, 10, ...) as env.Parse uses it for an int field: an
\* optional sign and at least one digit, nothing else.
ParseInt(v) ==
    LET signed == v # <<>> /\ Head(v) \in {"-", "+"}
        ds == IF signed THEN Tail(v) ELSE v
    IN IF ds = <<>> \/ \E i \in DOMAIN ds : ds[i] \notin DOMAIN DigitValue
       THEN [ok |-> FALSE, val |-> 0]
       ELSE [ok |-> TRUE,
             val |-> IF signed /\ Head(v) = "-"
                     THEN 0 - DigitsValue(ds, 0)
                     ELSE DigitsValue(ds, 0)]

\* What env.Parse reads for a field: the variable when it is set, the
\* envDefault otherwise.
EnvLookup(env, f) ==
    IF EnvName(f) \in DOMAIN env THEN env[EnvName(f)] ELSE EnvDefault(f)

\* env.Parse(instance): an error when an int field does not parse, and the
\* struct with every field set otherwise.
EnvParse(env) ==
    IF \E f \in IntFields : ~ParseInt(EnvLookup(env, f)).ok
    THEN [ok |-> FALSE, cfg |-> ZeroConfig]
    ELSE [ok |-> TRUE,
          cfg |-> [f \in ConfigFields |->
                    IF f \in IntFields THEN ParseInt(EnvLookup(env, f)).val
                    ELSE EnvLookup(env, f)]]

\* Mutant of Validate: the upper limit of the ports is not checked.
ValidateNoPortLimit(c) ==
    IF c["PublicPort"] < 1 THEN "invalid port: public"
    ELSE IF c["AdminPort"] < 1 THEN "invalid port: admin"
    ELSE IF c["RequestsPerMinute"] < 1 THEN "rate limit must be positive"
    ELSE IF c["Burst"] < 1 THEN "rate limit burst must be positive"
    ELSE IF c["MaxLength"] < 1 THEN "max text length must be positive"
    ELSE IF c["DefaultAlign"] \notin {<<"left">>, <<"center">>, <<"right">>}
         THEN "invalid alignment"
    ELSE IF c["DefaultTimeout"] < 1 THEN "streaming timeout must be positive"
    ELSE IF c["MaxTimeout"] < c["DefaultTimeout"]
         THEN "max timeout must be >= default timeout"
    ELSE IF c["DefaultSpeed"] < 1 \/ c["DefaultSpeed"] > 10
         THEN "streaming speed must be between 1 and 10"
    ELSE "nil"

\* Config.Validate(): "nil" or the first error.
Validate(c) ==
    IF c["PublicPort"] < 1 \/ c["PublicPort"] > 65535
    THEN "invalid port: public"
    ELSE IF c["AdminPort"] < 1 \/ c["AdminPort"] > 65535
         THEN "invalid port: admin"
    ELSE IF c["RequestsPerMinute"] < 1 THEN "rate limit must be positive"
    ELSE IF c["Burst"] < 1 THEN "rate limit burst must be positive"
    ELSE IF c["MaxLength"] < 1 THEN "max text length must be positive"
    ELSE IF c["DefaultAlign"] \notin {<<"left">>, <<"center">>, <<"right">>}
         THEN "invalid alignment"
    ELSE IF c["DefaultTimeout"] < 1 THEN "streaming timeout must be positive"
    ELSE IF c["MaxTimeout"] < c["DefaultTimeout"]
         THEN "max timeout must be >= default timeout"
    ELSE IF c["DefaultSpeed"] < 1 \/ c["DefaultSpeed"] > 10
         THEN "streaming speed must be between 1 and 10"
    ELSE "nil"

\* A nil *Config, and the pointer to the id-th Config allocated, with the
\* fields the struct holds.
NilConfig == [isNil |-> TRUE, id |-> 0, c |-> ZeroConfig]
ConfigPtr(id, c) == [isNil |-> FALSE, id |-> id, c |-> c]

\* No .env file, and the map without variables.
NoVars == [n \in {} |-> <<>>]
NoDotenv == [exists |-> FALSE, vars |-> NoVars]

\* godotenv.Load(): the variables of the .env file that the environment
\* does not have are set; without a file nothing is.
DotenvLoad(env, dotenv) ==
    IF ~dotenv.exists THEN env
    ELSE [n \in DOMAIN env \cup DOMAIN dotenv.vars |->
            IF n \in DOMAIN env THEN env[n] ELSE dotenv.vars[n]]

\* Mutant of InstanceOnError: the instance is kept when loading failed.
InstanceOnErrorKept(inst) == inst

\* "instance = nil" on the two error paths of Load.
InstanceOnError(inst) == NilConfig

\* Mutant of OnceSkips: once.Do runs its function at every call.
OnceSkipsNever(done) == FALSE

\* once.Do skips its function when the done flag is set.
OnceSkips(done) == done

\* The function once.Do runs in Load, on an environment and a .env file,
\* when id - 1 Configs have been allocated: instance and loadErr
\* afterwards, and the environment godotenv leaves.
LoadBody(env, dotenv, id) ==
    LET env1 == DotenvLoad(env, dotenv)
        p == EnvParse(env1)
    IN IF ~p.ok
       THEN [instance |-> InstanceOnError(ConfigPtr(id, ZeroConfig)),
             env |-> env1,
             loadErr |-> "failed to parse environment variables"]
       ELSE IF Validate(p.cfg) # "nil"
            THEN [instance |-> InstanceOnError(ConfigPtr(id, p.cfg)),
                  env |-> env1,
                  loadErr |-> "configuration validation failed"]
            ELSE [instance |-> ConfigPtr(id, p.cfg), env |-> env1,
                  loadErr |-> "nil"]

\* os.Environ(): one "name=value" string for every variable.
Environ(env) == {<<n, "=">> \o env[n] : n \in DOMAIN env}

\* Mutant of SplitEntry: the string is cut at its last "=".
SplitEntryAtLast(e) ==
    LET i == CHOOSE j \in DOMAIN e :
                e[j] = "=" /\ \A k \in DOMAIN e : e[k] = "=" => k <= j
    IN [name |-> SubSeq(e, 1, i - 1), value |-> SubSeq(e, i + 1, Len(e))]

\* The restore loop of LoadFromEnv on one string: e[:i] and e[i+1:] for
\* the first i with e[i] == '='.
SplitEntry(e) ==
    LET i == CHOOSE j \in DOMAIN e :
                e[j] = "=" /\ \A k \in DOMAIN e : e[k] = "=" => j <= k
    IN [name |-> SubSeq(e, 1, i - 1), value |-> SubSeq(e, i + 1, Len(e))]

\* os.Clearenv() followed by os.Setenv(e[:i], e[i+1:]) for every string of
\* originalEnv that holds an "="; a name is one token.
RestoreEnv(originalEnv) ==
    LET es == {e \in originalEnv : \E j \in DOMAIN e : e[j] = "="}
        names == {SplitEntry(e).name[1] :
                    e \in {x \in es : Len(SplitEntry(x).name) = 1}}
    IN [n \in names |->
            SplitEntry(CHOOSE e \in es : SplitEntry(e).name = <<n>>).value]

\* ------------------------------------------- package config: the state

\* The goroutines that call package config, the Configs one run allocates
\* and the variables a starting environment overrides.
NumCallers == 2
MaxAllocs == 2
MaxOverrides == 1
Callers == 1 .. NumCallers

\* Variables every environment holds besides those of the configuration:
\* one whose value holds an "=", and one with the empty value.
BaseEnv ==
    [n \in {"OTHER", "EMPTY"} |->
        IF n = "OTHER" THEN <<"a", "=", "b">> ELSE <<>>]

\* Values given to the variables of the fields: valid ones, ones Validate
\* rejects and ones that do not parse.
OverrideValues(f) ==
    CASE f = "PublicPort" ->
            {<<"0">>, <<"1">>, <<"6", "5", "5", "3", "5">>,
             <<"6", "5", "5", "3", "6">>, <<"x">>}
      [] f = "AdminPort" ->
            {<<"-", "1">>, <<"6", "5", "5", "3", "6">>, <<"+", "7">>}
      [] f = "RequestsPerMinute" -> {<<"0">>, <<"1">>}
      [] f = "Burst" -> {<<"0">>, <<"1">>}
      [] f = "MaxLength" -> {<<"0">>, <<"1">>, <<"1", "=">>}
      [] f = "DefaultAlign" -> {<<"left">>, <<"right">>, <<"middle">>}
      [] f = "DefaultTimeout" -> {<<"0">>, <<"1">>, <<"3", "0", "1">>}
      [] f = "MaxTimeout" -> {<<"2", "9">>, <<"3", "0">>, <<"3", "0", "1">>}
      [] f = "DefaultSpeed" ->
            {<<"0">>, <<"1">>, <<"1", "0">>, <<"1", "1">>}
      [] f = "BufferSize" -> {<<"0">>, <<"x">>}

\* map m laid over map env.
Overlay(env, m) ==
    [n \in DOMAIN env \cup DOMAIN m |->
        IF n \in DOMAIN m THEN m[n] ELSE env[n]]

\* The environments a run of SpecConfigSeq starts from: BaseEnv with at
\* most MaxOverrides variables of the configuration set.
Overrides ==
    UNION {
        {[n \in {EnvName(f) : f \in S} |->
            v[CHOOSE f \in S : EnvName(f) = n]] :
                v \in {w \in [S -> UNION {OverrideValues(f) : f \in S}] :
                        \A f \in S : w[f] \in OverrideValues(f)}} :
        S \in {T \in SUBSET ConfigFields : Cardinality(T) <= MaxOverrides}}
StartEnvs == {Overlay(BaseEnv, m) : m \in Overrides}

\* The environments of SpecConfig: the public port is not set, rejected
\* by Validate, or not a number.
PortValues == {<<"-", "1">>, <<"not-a-number">>}
PortEnvs ==
    {BaseEnv}
    \cup {Overlay(BaseEnv,
                  [n \in {EnvName("PublicPort")} |-> v]) : v \in PortValues}

\* The .env files: none, and one that sets the two ports.
DotenvFiles ==
    {NoDotenv,
     [exists |-> TRUE,
      vars |-> [n \in {EnvName("PublicPort"), EnvName("AdminPort")} |->
                    IF n = EnvName("PublicPort")
                    THEN <<"4", "0", "0", "0">>
                    ELSE <<"0">>]]}

\* The maps LoadFromEnv is given.
GivenEnvs ==
    {NoVars,
     [n \in {EnvName("PublicPort")} |-> <<"5", "0", "0", "0">>],
     [n \in {EnvName("PublicPort")} |-> <<"x">>],
     [n \in {EnvName("DefaultSpeed")} |-> <<"1", "1">>]}

\* No call has returned yet.
NoReturn ==
    [op |-> "none", instance |-> NilConfig, err |-> "nil",
     panicked |-> FALSE, afterFirst |-> FALSE, envChanged |-> FALSE,
     loadOk |-> FALSE, envBefore |-> NoVars, given |-> NoVars]
\* No Load has returned since the last Reset.
NoFirst == [set |-> FALSE, instance |-> NilConfig, err |-> "nil"]

\* No Get is between its reads. A Get that has read instance keeps the
\* pointer it read, with what held when the call was made.
NoGet ==
    [instance |-> NilConfig, afterFirst |-> FALSE, changed |-> FALSE,
     loadOk |-> FALSE]

\* Package config at program start, in an environment and with a .env
\* file: the zero sync.Once, instance and loadErr nil, no call made.
ConfStart(env, dotenv) ==
    [env |-> env, dotenv |-> dotenv,
     done |-> FALSE, holder |-> 0,
     instance |-> NilConfig, loadErr |-> "nil",
     allocs |-> 0, bodyRuns |-> 0, first |-> NoFirst,
     changed |-> FALSE,
     cpos |-> [g \in Callers |-> "idle"],
     get |-> [g \in Callers |-> NoGet],
     last |-> NoReturn]

\* No read of the cache has been made yet. A read records its operation,
\* its arguments (name, def, text) and what it returned: a font and the
\* exists flag, a list of names, or the art and the error.
NoRead ==
    [op |-> "none", name |-> "", def |-> "", res |-> NilFont,
     exists |-> FALSE, list |-> <<>>, text |-> "", art |-> <<>>,
     err |-> "nil"]

\* No GenerateASCII call is between its lookup and its rendering.
NoGen == [active |-> FALSE, text |-> "", name |-> "", font |-> NilFont]

\* No LoadFonts call has been made yet.
NoLoad ==
    [called |-> FALSE, Path |-> "", Allowed |-> <<>>,
     before |-> EmptyFonts, err |-> "nil", loadedCount |-> 0]

\* The goroutines that call LoadFonts and those that read the cache.
NumLoaders == 2
NumReaders == 2
Loaders == {<<"loader", i>> : i \in 1 .. NumLoaders}
Readers == {<<"reader", i>> : i \in 1 .. NumReaders}

\* The zero sync.RWMutex, no goroutine inside a method of the cache.
LockInit ==
    /\ mu = [writer |-> FALSE, readerCount |-> 0]
    /\ lpc = [g \in Loaders \cup Readers |-> "idle"]
    /\ lload = [g \in Loaders |-> [Path |-> "", Allowed |-> <<>>, i |-> 1]]
    /\ seen = [g \in Readers |-> EmptyFonts]
    /\ committed = EmptyFonts

\* NewFontCache(): an empty map; LoadFonts has not been called. The cache
\* pointer is not nil and Fonts.Default has its envDefault.
FontInit ==
    /\ fs = DiskA
    /\ fcFonts = EmptyFonts
    /\ lastLoad = NoLoad
    /\ lookup = NoRead
    /\ cacheNil = FALSE
    /\ cfgDefault = "standard"
    /\ gen = NoGen
    /\ conf = ConfStart(BaseEnv, NoDotenv)
    /\ LockInit

Init ==
    /\ CMInit /\ SeqInit /\ ClientInit /\ SessInit
    /\ PureInit /\ ShutdownInit /\ FontInit

\* Init with one capacity and one party font cache, for the specifications
\* in which the ConnectionManager and the requests take no step.
InitAtRest == Init /\ maxStreams = MaxCap /\ fontCache = {}

\* The server as main starts it: LoadConfig has refused a configuration
\* whose max_connections is below 1. The server is run with the smallest
\* capacity and with the largest.
ServerCapacities == {1, MaxCap}
ServerInit == Init /\ maxStreams \in ServerCapacities

\* ---------------------------------------------- SpecSeq: one call at a time

Call(op, ret, before) ==
    [op |-> op, ret |-> ret, before |-> before, after |-> activeStreams',
     maxBefore |-> maxStreams, maxAfter |-> maxStreams']

\* A whole TryAcquire with nothing running between its load and its add.
SeqTryAcquire ==
    /\ Len(trace) < MaxCalls
    /\ LET cur == AtomicLoad(activeStreams)
           r == TryAcquireStep(cur, activeStreams, maxStreams)
       IN /\ activeStreams' = r.active
          /\ UNCHANGED maxStreams
          /\ trace' = Append(trace, Call("TryAcquire", r.ret, activeStreams))
    /\ UNCHANGED <<clientVars, sessVars, auxVars>>

SeqRelease ==
    /\ Len(trace) < MaxCalls
    /\ activeStreams' = ReleaseStep(activeStreams)
    /\ UNCHANGED maxStreams
    /\ trace' = Append(trace, Call("Release", FALSE, activeStreams))
    /\ UNCHANGED <<clientVars, sessVars, auxVars>>

SeqNext == SeqTryAcquire \/ SeqRelease

SpecSeq == Init /\ [][SeqNext]_vars

\* ------------------------------------- SpecCM: concurrent calls on the API

\* TryAcquire, first atomic operation: current := LoadInt64(&activeStreams)
CMLoad(c) ==
    /\ cpc[c] = "idle"
    /\ nCalls < MaxCalls
    /\ nCalls' = nCalls + 1
    /\ ccurrent' = [ccurrent EXCEPT ![c] = AtomicLoad(activeStreams)]
    /\ cpc' = [cpc EXCEPT ![c] = "loaded"]
    /\ UNCHANGED <<cmVars, cret, nTrue, nReleased, seqVars, sessVars,
                   auxVars>>

\* TryAcquire, the comparison and (when below capacity) the atomic add.
CMCheck(c) ==
    /\ cpc[c] = "loaded"
    /\ LET r == TryAcquireStep(ccurrent[c], activeStreams, maxStreams)
       IN /\ activeStreams' = r.active
          /\ cret' = [cret EXCEPT ![c] = r.ret]
    /\ ccurrent' = [ccurrent EXCEPT ![c] = 0]
    /\ cpc' = [cpc EXCEPT ![c] = "returning"]
    /\ UNCHANGED <<maxStreams, nCalls, nTrue, nReleased, seqVars, sessVars,
                   auxVars>>

\* TryAcquire returns to its caller.
CMReturn(c) ==
    /\ cpc[c] = "returning"
    /\ nTrue' = IF cret[c] THEN nTrue + 1 ELSE nTrue
    /\ cret' = [cret EXCEPT ![c] = FALSE]
    /\ cpc' = [cpc EXCEPT ![c] = "idle"]
    /\ UNCHANGED <<cmVars, ccurrent, nCalls, nReleased, seqVars, sessVars,
                   auxVars>>

\* Release: a single atomic add.
CMRelease(c) ==
    /\ cpc[c] = "idle"
    /\ nCalls < MaxCalls
    /\ nCalls' = nCalls + 1
    /\ activeStreams' = ReleaseStep(activeStreams)
    /\ nReleased' = nReleased + 1
    /\ UNCHANGED <<maxStreams, cpc, ccurrent, cret, nTrue, seqVars, sessVars,
                   auxVars>>

\* The handler ConnectionManager.Middleware() returns, run for a request
\* to a streaming path (for any other path it only calls c.Next()). main
\* does not install it; it is a caller of the API like any other.
\* First the load of its TryAcquire call.
MWLoad(c) ==
    /\ cpc[c] = "idle"
    /\ nCalls + 1 < MaxCalls
    /\ nCalls' = nCalls + 1
    /\ ccurrent' = [ccurrent EXCEPT ![c] = AtomicLoad(activeStreams)]
    /\ cpc' = [cpc EXCEPT ![c] = "mwLoaded"]
    /\ UNCHANGED <<cmVars, cret, nTrue, nReleased, seqVars, sessVars,
                   auxVars>>

\* The rest of TryAcquire: on false the middleware counts the rejection
\* and answers 503; on true it defers Release and calls c.Next().
MWCheck(c) ==
    /\ cpc[c] = "mwLoaded"
    /\ \E r \in {TryAcquireStep(ccurrent[c], activeStreams, maxStreams)} :
        /\ activeStreams' = r.active
        /\ nTrue' = IF r.ret THEN nTrue + 1 ELSE nTrue
        /\ metrics' = [metrics EXCEPT
                            !.RejectedStreams =
                                IF r.ret THEN @ ELSE @ + 1]
        /\ cpc' = [cpc EXCEPT ![c] = IF r.ret THEN "mwNext" ELSE "idle"]
    /\ ccurrent' = [ccurrent EXCEPT ![c] = 0]
    /\ UNCHANGED <<maxStreams, cret, nCalls, nReleased, seqVars, auxVars,
                   fontCache, pc, current, resp, acquired, released, sw,
                   frame, timer, out>>

\* c.Next() returns and the deferred Release runs.
MWReturn(c) ==
    /\ cpc[c] = "mwNext"
    /\ nCalls' = nCalls + 1
    /\ activeStreams' = ReleaseStep(activeStreams)
    /\ nReleased' = nReleased + 1
    /\ cpc' = [cpc EXCEPT ![c] = "idle"]
    /\ UNCHANGED <<maxStreams, ccurrent, cret, nTrue, seqVars, sessVars,
                   auxVars>>

CMNext ==
    \E c \in Clients :
        \/ CMLoad(c) \/ CMCheck(c) \/ CMReturn(c) \/ CMRelease(c)
        \/ MWLoad(c) \/ MWCheck(c) \/ MWReturn(c)

SpecCM == Init /\ [][CMNext]_vars

\* ------------------------------------------------ Spec: helper functions

\* Characters are code points: '+', ' ', 'a', a control character, and 'e'
\* with an acute accent (outside ASCII).
Plus == 43
Space == 32
Chars == {Plus, 97, 7, 233}

\* strings.ReplaceAll(text, "+", " ")
ReplaceAllPlus(text) ==
    [i \in 1 .. Len(text) |-> IF text[i] = Plus THEN Space ELSE text[i]]

\* The rune filter of cleanForFiglet's strings.Map.
KeepRune(r) == (r >= 32 /\ r <= 126) \/ r = 10 \/ r = 9

RECURSIVE MapKeep(_)
MapKeep(text) ==
    IF text = <<>> THEN <<>>
    ELSE IF KeepRune(Head(text)) THEN <<Head(text)>> \o MapKeep(Tail(text))
    ELSE MapKeep(Tail(text))

cleanForFiglet(text) ==
    LET kept == MapKeep(text)
    IN IF Len(kept) > MaxTextLength THEN SubSeq(kept, 1, MaxTextLength)
       ELSE kept

\* firstOf: the first non-empty string.
RECURSIVE firstOf(_)
firstOf(values) ==
    IF values = <<>> THEN ""
    ELSE IF Head(values) # "" THEN Head(values)
    ELSE firstOf(Tail(values))

\* fiber's c.QueryInt(key, default): a query parameter is <<>> when absent
\* and <<n>> when it parses as the integer n.
QueryInt(q, default) == IF q = <<>> THEN default ELSE q[1]

\* parseOptions (the parameters the animated stream reads).
parseOptions(req) ==
    [Font |-> firstOf(<<req.f, req.font, "doom">>),
     Speed |-> QueryInt(req.s, QueryInt(req.speed, 5)),
     Align |-> firstOf(<<req.a, req.align, "left">>)]

validFonts ==
    {"doom", "3d", "big", "bloody", "standard", "slant", "small", "shadow"}
validAligns == {"left", "center", "right"}

\* validateOptions: <<>> for nil, otherwise the error message.
validateOptions(opts) ==
    IF opts.Font # "" /\ opts.Font \notin validFonts
    THEN <<"invalid font: ", opts.Font>>
    ELSE IF opts.Speed < 0 \/ opts.Speed > MaxSpeed
    THEN <<"speed must be between 1 and 10">>
    ELSE IF opts.Align # "" /\ opts.Align \notin validAligns
    THEN <<"invalid alignment: ", opts.Align>>
    ELSE <<>>

\* generateASCII's error: the requested font, else DefaultFont, else "no
\* fonts loaded"; renderFails is the outcome of the figlet renderer.
generateASCII(opts, fonts, renderFails) ==
    IF opts.Font \notin fonts /\ DefaultFont \notin fonts
    THEN "no fonts loaded"
    ELSE IF renderFails THEN "failed to render text"
    ELSE ""

\* The requests the handler is driven with.
Texts == {<<>>} \cup {<<a>> : a \in Chars}
            \cup {<<a, b>> : a \in {Plus, 233}, b \in {97, 233}}
BaseRequest ==
    [text |-> <<97>>, f |-> "", font |-> "", s |-> <<>>, speed |-> <<>>,
     a |-> "", align |-> ""]
Requests ==
    {[BaseRequest EXCEPT !.text = t] : t \in Texts}
    \cup {[BaseRequest EXCEPT !.f = x, !.font = y] :
            x \in {"", "standard"}, y \in {"", "comic"}}
    \cup {[BaseRequest EXCEPT !.s = x, !.speed = y] :
            x \in {<<>>, <<0 - 1>>, <<11>>}, y \in {<<>>, <<0>>}}
    \cup {[BaseRequest EXCEPT !.a = x, !.align = y] :
            x \in {"", "diagonal"}, y \in {"", "right"}}

RespCapacity ==
    [status |-> 503,
     body |-> <<"Error: Too many active streams. Please try again later.">>]
RespNoText == [status |-> 400, body |-> <<"Error: No text provided">>]
RespNoValidChars ==
    [status |-> 400, body |-> <<"Error: Text contains no valid characters">>]
RespInvalid(err) == [status |-> 400, body |-> <<"Error: ">> \o err]
RespRenderError ==
    [status |-> 500, body |-> <<"Error generating ASCII art">>]
RespStream == [status |-> 200, body |-> <<>>]

\* partyHandler after admission, down to streamAnimated's render step: the
\* response the request ends with (RespStream: the stream is set up).
HandlerOutcome(req, fonts, renderFails) ==
    LET text == cleanForFiglet(ReplaceAllPlus(req.text))
        opts == parseOptions(req)
    IN IF req.text = <<>> THEN RespNoText
       ELSE IF Len(text) = 0 THEN RespNoValidChars
       ELSE IF validateOptions(opts) # <<>>
       THEN RespInvalid(validateOptions(opts))
       ELSE IF generateASCII(opts, fonts, renderFails) # ""
       THEN RespRenderError
       ELSE RespStream

\* The requests the catch-all route is driven with: no text, a text with
\* and without a character that is kept, and an unknown font.
StaticRequests ==
    {[BaseRequest EXCEPT !.text = t, !.f = x] :
        t \in {<<>>, <<97>>, <<233>>}, x \in {"", "comic"}}

RespLimited ==
    [status |-> 429,
     body |-> <<"Rate limit exceeded. Try again in a minute.">>]
RespStatic(text, opts) ==
    [status |-> 200, body |-> <<"ascii", text, opts.Font>>]
\* customErrorHandler's response; the message, and the JSON form a client
\* may ask for, are left out of the body.
RespError(code) == [status |-> code, body |-> <<"Error %d: %s", code>>]

\* staticHandler: the response the request ends with. The options are
\* validated before the text is cleaned.
StaticOutcome(req, fonts, renderFails) ==
    LET opts == parseOptions(req)
        text == cleanForFiglet(ReplaceAllPlus(req.text))
    IN IF req.text = <<>> THEN RespNoText
       ELSE IF validateOptions(opts) # <<>>
       THEN RespInvalid(validateOptions(opts))
       ELSE IF Len(text) = 0 THEN RespNoValidChars
       ELSE IF generateASCII(opts, fonts, renderFails) # ""
       THEN RespRenderError
       ELSE RespStatic(text, opts)

\* The responses of the catch-all route, for each font cache.
StaticOutcomes ==
    [fonts \in FontCaches |->
        {StaticOutcome(req, fonts, renderFails) :
            req \in StaticRequests, renderFails \in BOOLEAN}]

\* The errors a request can end with outside the handlers: a method other
\* than GET (fiber's 405), and an error that is no *fiber.Error, such as
\* the panic the recover middleware turns into one (500).
ErrorCodes == {405, 500}

\* The responses a request can end with after admission, for each font
\* cache: that of every request, with the renderer working or failing.
HandlerOutcomes ==
    [fonts \in FontCaches |->
        {HandlerOutcome(req, fonts, renderFails) :
            req \in Requests, renderFails \in BOOLEAN}]

\* Whether the response was produced inside streamAnimated.
InStreamAnimated(r) == r.status \in {500, 200}

\* Mutant of DeferredRelease: Release is called by hand after streamAnimated
\* and the early returns skip it.
DeferredReleaseOnlyAfterStream(r) == InStreamAnimated(r)

\* `defer connManager.Release()`: whether Release runs when partyHandler
\* returns with response r after a successful TryAcquire.
DeferredRelease(r) == TRUE

\* Mutant of StreamStarts: the body stream writer is installed before the
\* render result is checked.
StreamStartsAlways(r) == r.status \in {200, 500}

\* Whether streamAnimated reaches SetBodyStreamWriter.
StreamStarts(r) == r.status = 200

\* ------------------------------------- Spec: concurrent party requests

\* partyHandler: the PartyRequests metric, then TryAcquire's load.
PHLoad(s) ==
    /\ pc[s] = "start"
    /\ metrics' = [metrics EXCEPT !.PartyRequests = @ + 1]
    /\ current' = [current EXCEPT ![s] = AtomicLoad(activeStreams)]
    /\ pc' = [pc EXCEPT ![s] = "loaded"]
    /\ UNCHANGED <<cmVars, seqVars, clientVars, auxVars,
                   fontCache, resp, acquired,
                   released, sw, frame, timer, out>>

\* partyHandler: TryAcquire's comparison and add. On false the handler
\* counts the rejection and returns 503 before `defer Release` is reached.
PHCheck(s) ==
    /\ pc[s] = "loaded"
    /\ LET r == TryAcquireStep(current[s], activeStreams, maxStreams)
       IN /\ activeStreams' = r.active
          /\ acquired' =
                [acquired EXCEPT ![s] = @ + (r.active - activeStreams)]
          /\ IF r.ret
             THEN /\ pc' = [pc EXCEPT ![s] = "admitted"]
                  /\ UNCHANGED <<metrics, resp>>
             ELSE /\ metrics' = [metrics EXCEPT !.RejectedStreams = @ + 1]
                  /\ resp' = [resp EXCEPT ![s] = RespCapacity]
                  /\ pc' = [pc EXCEPT ![s] = "done"]
    /\ current' = [current EXCEPT ![s] = 0]
    /\ UNCHANGED <<maxStreams, seqVars, clientVars, auxVars,
                   fontCache, released,
                   sw, frame, timer, out>>

\* partyHandler from the text checks to the end of streamAnimated's body:
\* the 400 returns, or streamAnimated with its render step, its timer and
\* SetBodyStreamWriter. SetBodyStreamWriter only installs the writer: the
\* server runs it in a goroutine of its own and the call returns without
\* waiting for it, so the writer's steps interleave with the handler's
\* return.
PHBody(s) ==
    /\ pc[s] = "admitted"
    /\ \E r \in HandlerOutcomes[fontCache] :
           /\ resp' = [resp EXCEPT ![s] = r]
           /\ IF InStreamAnimated(r)
              THEN /\ metrics' =
                        [metrics EXCEPT
                            !.ActiveStreams = @ + 1,
                            !.TotalErrors =
                                IF r.status = 500 THEN @ + 1 ELSE @]
              ELSE UNCHANGED metrics
           /\ pc' = [pc EXCEPT ![s] = "returning"]
           /\ IF StreamStarts(r)
              THEN /\ timer' = [timer EXCEPT ![s] = "running"]
                   /\ sw' = [sw EXCEPT ![s] = "spawned"]
              ELSE UNCHANGED <<timer, sw>>
    /\ UNCHANGED <<cmVars, seqVars, clientVars, auxVars,
                   fontCache, current, acquired,
                   released, frame, out>>

\* The handler returns. After streamAnimated its defers run first, the
\* ActiveStreams metric and timeout.Stop() (Stop on a timer that already
\* fired either leaves the value in the channel or drains it, by Go
\* version); then partyHandler's deferred Release runs.
PHReturn(s) ==
    /\ pc[s] = "returning"
    /\ IF InStreamAnimated(resp[s])
       THEN metrics' = [metrics EXCEPT !.ActiveStreams = @ - 1]
       ELSE UNCHANGED metrics
    /\ \E t \in (CASE timer[s] = "running" -> {"stopped"}
                   [] timer[s] = "fired" -> {"fired", "stopped"}
                   [] OTHER -> {timer[s]}) :
            timer' = [timer EXCEPT ![s] = t]
    /\ IF DeferredRelease(resp[s])
       THEN /\ activeStreams' = ReleaseStep(activeStreams)
            /\ released' = [released EXCEPT ![s] = @ + 1]
       ELSE UNCHANGED <<activeStreams, released>>
    /\ pc' = [pc EXCEPT ![s] = "done"]
    /\ UNCHANGED <<maxStreams, seqVars, clientVars, auxVars, fontCache, current,
                   resp, acquired, sw, frame, out>>

\* The rate limiter, which every request passes first, finds the client
\* over its limit (how many requests the client made in the last minute
\* is an input): LimitReached counts the rejection and answers 429, and
\* no handler runs.
LimitReached(s) ==
    /\ pc[s] = "start"
    /\ metrics' = [metrics EXCEPT !.RejectedStreams = @ + 1]
    /\ resp' = [resp EXCEPT ![s] = RespLimited]
    /\ pc' = [pc EXCEPT ![s] = "limited"]
    /\ UNCHANGED <<cmVars, seqVars, clientVars, auxVars, fontCache,
                   current, acquired, released, sw, frame, timer, out>>

\* A request to the catch-all route: staticHandler from call to return.
staticHandler(s) ==
    /\ pc[s] = "start"
    /\ \E r \in StaticOutcomes[fontCache] :
        /\ resp' = [resp EXCEPT ![s] = r]
        /\ metrics' = [metrics EXCEPT
                            !.TotalErrors =
                                IF r = RespRenderError THEN @ + 1 ELSE @]
    /\ pc' = [pc EXCEPT ![s] = "static"]
    /\ UNCHANGED <<cmVars, seqVars, clientVars, auxVars, fontCache,
                   current, acquired, released, sw, frame, timer, out>>

\* A request that ends with an error outside the handlers:
\* customErrorHandler counts it when its code is 500 or more.
customErrorHandler(s) ==
    /\ pc[s] = "start"
    /\ \E code \in ErrorCodes :
        /\ resp' = [resp EXCEPT ![s] = RespError(code)]
        /\ metrics' = [metrics EXCEPT
                            !.TotalErrors =
                                IF code >= 500 THEN @ + 1 ELSE @]
    /\ pc' = [pc EXCEPT ![s] = "failed"]
    /\ UNCHANGED <<cmVars, seqVars, clientVars, auxVars, fontCache,
                   current, acquired, released, sw, frame, timer, out>>

\* The deadline timer fires unless it was stopped.
TimerFire(s) ==
    /\ timer[s] = "running"
    /\ timer' = [timer EXCEPT ![s] = "fired"]
    /\ UNCHANGED <<cmVars, seqVars, clientVars, auxVars, metrics, fontCache, pc,
                   current, resp, acquired, released, sw, frame, out>>

\* The stream writer goroutine: clear screen, flush, start the ticker.
SWStart(s) ==
    /\ sw[s] = "spawned"
    /\ out' = [out EXCEPT ![s] = Append(@, <<"clear", 0>>)]
    /\ sw' = [sw EXCEPT ![s] = "loop"]
    /\ UNCHANGED <<cmVars, seqVars, clientVars, auxVars, metrics, fontCache, pc,
                   current, resp, acquired, released, frame, timer>>

\* select, case <-timeout.C: reset colours, flush, return.
SWTimeout(s) ==
    /\ sw[s] = "loop"
    /\ timer[s] = "fired"
    /\ out' = [out EXCEPT ![s] = Append(@, <<"reset", 0>>)]
    /\ sw' = [sw EXCEPT ![s] = "exited"]
    /\ UNCHANGED <<cmVars, seqVars, clientVars, auxVars, metrics, fontCache, pc,
                   current, resp, acquired, released, frame, timer>>

\* Mutants of FrameAfterFlush: the counter is not advanced, and the counter
\* is advanced for a frame whose flush failed too.
FrameAfterFlushStuck(f, flushOk) == f
FrameAfterFlushCountsFailed(f, flushOk) == f + 1

\* The frame counter after a tick: `frame++` is reached only when
\* w.Flush() returned no error.
FrameAfterFlush(f, flushOk) == IF flushOk THEN f + 1 ELSE f

\* The stream writer after a tick: `return` when w.Flush() failed.
WriterAfterFlush(flushOk) == IF flushOk THEN "loop" ELSE "exited"

\* Mutant of TickOutput: the frame is written before the cursor goes home.
TickOutputFrameFirst(f) == <<(<<"frame", f>>), (<<"home", 0>>)>>

\* What a tick writes before it flushes: "\033[H", then the frame that
\* renderAnimatedFrame makes for the counter.
TickOutput(f) == <<(<<"home", 0>>), (<<"frame", f>>)>>

\* select, case <-ticker.C: cursor home, the frame, flush; a failed flush
\* (the client is gone) returns, a successful one increments frame.
SWTick(s) ==
    /\ sw[s] = "loop"
    /\ frame[s] < MaxFrames
    /\ out' = [out EXCEPT ![s] = @ \o TickOutput(frame[s])]
    /\ \E flushOk \in BOOLEAN :
        /\ frame' = [frame EXCEPT ![s] = FrameAfterFlush(@, flushOk)]
        /\ sw' = [sw EXCEPT ![s] = WriterAfterFlush(flushOk)]
    /\ UNCHANGED <<cmVars, seqVars, clientVars, auxVars, metrics, fontCache, pc,
                   current, resp, acquired, released, timer>>

\* A step of the goroutine that serves request s: the limiter's
\* rejection, or the route the request takes.
HandlerStep(s) ==
    \/ LimitReached(s)
    \/ staticHandler(s)
    \/ customErrorHandler(s)
    \/ PHLoad(s) \/ PHCheck(s) \/ PHBody(s) \/ PHReturn(s)

WriterStep(s) == SWStart(s) \/ SWTick(s) \/ SWTimeout(s)

Next == \E s \in Sessions : HandlerStep(s) \/ WriterStep(s) \/ TimerFire(s)

Spec == ServerInit /\ [][Next]_vars

\* Every handler goroutine that can take a step eventually takes one: no
\* step of partyHandler or streamAnimated blocks.
FairSpec == Spec /\ \A s \in Sessions : WF_vars(HandlerStep(s))

\* Spec with every goroutine and every timer scheduled fairly: a handler
\* that can step does, a running timer fires, a spawned stream writer
\* starts, and a select whose deadline case is ready takes it in the end.
\* Nothing makes a flush fail: the client may stay connected.
LiveSpec ==
    /\ Spec
    /\ \A s \in Sessions :
        /\ WF_vars(HandlerStep(s))
        /\ WF_vars(TimerFire(s))
        /\ WF_vars(SWStart(s))
        /\ SF_vars(SWTimeout(s))

\* --------------------------- SpecShutdown: gracefulShutdown and the streams

\* Party requests that are served while the server shuts down.
NumShutdownSessions == 1
ShutdownSessions == 1 .. NumShutdownSessions

\* The process has ended, by os.Exit in gracefulShutdown or by the return
\* of main: no goroutine of the process runs any more.
Exited == gs \in {"exit0", "exit0warned", "exit1", "mainReturned"}

\* <-quit: SIGINT or SIGTERM arrives; both servers are told to shut down.
GSSignal ==
    /\ gs = "running"
    /\ gs' = "shutting"
    /\ UNCHANGED <<graceOver, cmVars, seqVars, clientVars, sessVars,
                   pureVars, fontVars>>

\* Both ShutdownWithContext calls have returned, at the latest when the
\* 30s context expires; on an error the process exits with status 1,
\* otherwise maxWait is set and the wait for the streams begins.
GSServersDown ==
    /\ gs = "shutting"
    /\ \E shutdownErr \in BOOLEAN :
        gs' = IF shutdownErr THEN "exit1" ELSE "waiting"
    /\ UNCHANGED <<graceOver, cmVars, seqVars, clientVars, sessVars,
                   pureVars, fontVars>>

\* Mutant of WaitCondition: the wait is not limited by maxWait.
WaitConditionNoGrace(active, over) == active > 0

\* connManager.GetActiveCount() > 0 && time.Now().Before(maxWait)
WaitCondition(active, over) == active > 0 /\ ~over

\* The loop condition: sleep for a second, or leave the loop.
GSCheck ==
    /\ gs = "waiting"
    /\ gs' = IF WaitCondition(GetActiveCount, graceOver)
             THEN "sleeping"
             ELSE "checked"
    /\ UNCHANGED <<graceOver, cmVars, seqVars, clientVars, sessVars,
                   pureVars, fontVars>>

\* time.Sleep(1 * time.Second) returns.
GSWake ==
    /\ gs = "sleeping"
    /\ gs' = "waiting"
    /\ UNCHANGED <<graceOver, cmVars, seqVars, clientVars, sessVars,
                   pureVars, fontVars>>

\* The clock passes maxWait, 10s after the servers were shut down.
GSGraceOver ==
    /\ gs \in {"waiting", "sleeping"}
    /\ ~graceOver
    /\ graceOver' = TRUE
    /\ UNCHANGED <<gs, cmVars, seqVars, clientVars, sessVars, pureVars,
                   fontVars>>

\* After the loop: the warning when streams are still counted, os.Exit(0).
GSExit ==
    /\ gs = "checked"
    /\ gs' = IF GetActiveCount > 0 THEN "exit0warned" ELSE "exit0"
    /\ UNCHANGED <<graceOver, cmVars, seqVars, clientVars, sessVars,
                   pureVars, fontVars>>

GSStep == GSSignal \/ GSServersDown \/ GSCheck \/ GSWake \/ GSExit

\* main is blocked in app.Listen. app.ShutdownWithContext, called by the
\* first goroutine gracefulShutdown starts after the signal, closes the
\* listener; Listen then returns nil, main returns and the process ends
\* with status 0, wherever gracefulShutdown and the streams are.
MainReturns ==
    /\ gs \in {"shutting", "waiting", "sleeping", "checked"}
    /\ gs' = "mainReturned"
    /\ UNCHANGED <<graceOver, cmVars, seqVars, clientVars, sessVars,
                   pureVars, fontVars>>

\* A step of a request while the process lives; the listener takes a new
\* request only until the servers are told to shut down.
SDHandler(s) ==
    /\ ~Exited
    /\ pc[s] = "start" => gs = "running"
    /\ HandlerStep(s)
SDWriter(s) == ~Exited /\ WriterStep(s)
SDTimer(s) == ~Exited /\ TimerFire(s)

SDNext ==
    \/ GSStep
    \/ GSGraceOver
    \/ MainReturns
    \/ \E s \in ShutdownSessions : SDHandler(s) \/ SDWriter(s) \/ SDTimer(s)

SpecShutdown == ServerInit /\ [][SDNext]_vars

\* gracefulShutdown is scheduled and its clock advances; nothing is
\* assumed about the requests, nor about when main returns.
FairShutdownSpec ==
    /\ SpecShutdown
    /\ WF_vars(GSStep)
    /\ WF_vars(GSGraceOver)

\* FairShutdownSpec with the handlers, timers and stream writers of the
\* requests scheduled fairly as well.
LiveShutdownSpec ==
    /\ FairShutdownSpec
    /\ \A s \in ShutdownSessions :
        /\ WF_vars(SDHandler(s))
        /\ WF_vars(SDTimer(s))
        /\ WF_vars(~Exited /\ SWStart(s))
        /\ SF_vars(~Exited /\ SWTimeout(s))

\* ------------------------------------------ SpecFonts: render.FontCache

\* Longest allow-list of a font configuration.
MaxAllowed == 3

\* cfg.Path and cfg.Allowed of the configurations LoadFonts is called with.
LoadDirs == FontDirs
\* Allow-lists: distinct names in any order, and such a list with its
\* first name listed once more at the end.
DistinctLists(maxLen) ==
    {a \in UNION {[1 .. n -> FontNames] : n \in 0 .. maxLen} :
        \A i, j \in DOMAIN a : i # j => a[i] # a[j]}
AllowLists ==
    DistinctLists(MaxAllowed)
    \cup {Append(a, a[1]) : a \in DistinctLists(MaxAllowed - 1) \ {<<>>}}
\* The names lookups ask for.
LookupNames == FontNames \cup {"comic"}
\* The names given as the default: render.DefaultFont and an unknown one.
DefaultNames == {"standard", "comic"}

\* ValidateFont(path) on a disk: "nil" or the error.
ValidateFont(path, disk) ==
    LET kind == IF path \in DOMAIN disk THEN disk[path] ELSE "absent"
    IN CASE kind = "absent" -> "font file does not exist"
         [] kind = "staterr" -> "cannot access font file"
         [] kind = "dir" -> "font path is a directory, not a file"
         [] kind = "noperm" -> "cannot read font file"
         [] OTHER -> "nil"

\* Mutant of MapPut: the assignment drops every other entry.
MapPutOnly(m, k, v) == [x \in {k} |-> v]

\* fc.fonts[k] = v
MapPut(m, k, v) ==
    [x \in DOMAIN m \cup {k} |-> IF x = k THEN v ELSE m[x]]

\* Mutant of LoadLoop: every valid font is stored under the first name of
\* the allow-list.
RECURSIVE LoadLoopKeysByFirst(_, _, _, _, _, _)
LoadLoopKeysByFirst(allowed, i, dir, disk, m, loadedCount) ==
    IF i > Len(allowed)
    THEN [fonts |-> m, loadedCount |-> loadedCount]
    ELSE LET fontName == allowed[i]
             fontPath == FontPath(dir, fontName)
         IN IF ValidateFont(fontPath, disk) # "nil"
            THEN LoadLoopKeysByFirst(allowed, i + 1, dir, disk, m,
                                     loadedCount)
            ELSE LoadLoopKeysByFirst(
                    allowed, i + 1, dir, disk,
                    MapPut(m, allowed[1],
                           [Name |-> fontName, fontPath |-> fontPath]),
                    loadedCount + 1)

\* Mutant of LoadLoop: the loop ends at the first name that fails.
RECURSIVE LoadLoopStopsAtFailure(_, _, _, _, _, _)
LoadLoopStopsAtFailure(allowed, i, dir, disk, m, loadedCount) ==
    IF i > Len(allowed)
    THEN [fonts |-> m, loadedCount |-> loadedCount]
    ELSE LET fontName == allowed[i]
             fontPath == FontPath(dir, fontName)
         IN IF ValidateFont(fontPath, disk) # "nil"
            THEN [fonts |-> m, loadedCount |-> loadedCount]
            ELSE LoadLoopStopsAtFailure(
                    allowed, i + 1, dir, disk,
                    MapPut(m, fontName,
                           [Name |-> fontName, fontPath |-> fontPath]),
                    loadedCount + 1)

\* LoadFonts, `for _, fontName := range cfg.Allowed` from element i on.
RECURSIVE LoadLoop(_, _, _, _, _, _)
LoadLoop(allowed, i, dir, disk, m, loadedCount) ==
    IF i > Len(allowed)
    THEN [fonts |-> m, loadedCount |-> loadedCount]
    ELSE LET fontName == allowed[i]
             fontPath == FontPath(dir, fontName)
         IN IF ValidateFont(fontPath, disk) # "nil"
            THEN LoadLoop(allowed, i + 1, dir, disk, m, loadedCount)
            ELSE LoadLoop(
                    allowed, i + 1, dir, disk,
                    MapPut(m, fontName,
                           [Name |-> fontName, fontPath |-> fontPath]),
                    loadedCount + 1)

\* FontCache.LoadFonts(cfg): the map afterwards, the count it logs and the
\* error it returns.
LoadFonts(m, dir, allowed, disk) ==
    LET r == LoadLoop(allowed, 1, dir, disk, m, 0)
    IN [fonts |-> r.fonts, loadedCount |-> r.loadedCount, err |-> "nil"]

\* Mutant of MapAfterIndex: reading a missing key adds it with a nil font.
MapAfterIndexInserts(m, k) ==
    IF k \in DOMAIN m THEN m ELSE MapPut(m, k, NilFont)

\* The map after `font, exists := fc.fonts[k]`: indexing a Go map adds no
\* key and changes no entry.
MapAfterIndex(m, k) == m

\* FontCache.GetFont(name): (font, exists).
GetFont(m, name) ==
    IF name \in DOMAIN m
    THEN [font |-> m[name], exists |-> TRUE]
    ELSE [font |-> NilFont, exists |-> FALSE]

\* Mutant of GetFontOrDefault: no fallback to the default.
GetFontOrDefaultNoFallback(m, name, defaultName) ==
    IF name \in DOMAIN m THEN m[name] ELSE NilFont

\* Mutant of GetFontOrDefault: the default is looked up first.
GetFontOrDefaultDefaultFirst(m, name, defaultName) ==
    IF defaultName \in DOMAIN m THEN m[defaultName]
    ELSE IF name \in DOMAIN m THEN m[name]
    ELSE NilFont

\* FontCache.GetFontOrDefault(name, defaultName)
GetFontOrDefault(m, name, defaultName) ==
    IF name \in DOMAIN m THEN m[name]
    ELSE IF defaultName \in DOMAIN m THEN m[defaultName]
    ELSE NilFont

\* The bytes of the font names, which sort.Strings compares.
NameBytes(name) ==
    CASE name = "comic" -> <<99, 111, 109, 105, 99>>
      [] name = "doom" -> <<100, 111, 111, 109>>
      [] name = "missing-file" ->
            <<109, 105, 115, 115, 105, 110, 103, 45, 102, 105, 108, 101>>
      [] name = "standard" -> <<115, 116, 97, 110, 100, 97, 114, 100>>

\* a < b on byte strings, from byte i on.
RECURSIVE BytesLess(_, _, _)
BytesLess(a, b, i) ==
    IF i > Len(b) THEN FALSE
    ELSE IF i > Len(a) THEN TRUE
    ELSE IF a[i] # b[i] THEN a[i] < b[i]
    ELSE BytesLess(a, b, i + 1)

\* Go's `a < b` on strings.
StringLess(a, b) == BytesLess(NameBytes(a), NameBytes(b), 1)

\* x put into an ascending list before the first name that is not less.
RECURSIVE SortedInsert(_, _)
SortedInsert(x, sorted) ==
    IF sorted = <<>> THEN <<x>>
    ELSE IF StringLess(Head(sorted), x)
         THEN <<Head(sorted)>> \o SortedInsert(x, Tail(sorted))
         ELSE <<x>> \o sorted

\* Mutant of SortStrings: the names stay in the order of the map iteration.
SortStringsNone(names) == names

\* sort.Strings(names): the names in ascending order.
RECURSIVE SortStrings(_)
SortStrings(names) ==
    IF names = <<>> THEN <<>>
    ELSE SortedInsert(Head(names), SortStrings(Tail(names)))

\* The orders in which `for name := range fc.fonts` can visit the keys: Go
\* leaves the iteration order of a map unspecified.
KeyOrders(m) ==
    {o \in [1 .. Cardinality(DOMAIN m) -> DOMAIN m] :
        \A i, j \in DOMAIN o : i # j => o[i] # o[j]}

\* FontCache.ListFonts() when the map is visited in the given order: a new
\* slice of the names, sorted.
ListFonts(m, order) == SortStrings(order)

\* The texts GenerateASCII is called with.
RenderTexts == {"", "HI", "A"}

\* const DefaultFont of package render.
RenderDefaultFont == "standard"

\* Font.Render(text) on a disk: the font file is opened and parsed at every
\* call, so the figure is made from what the path holds at that moment.
Render(font, text, disk) ==
    IF font = NilFont
    THEN [art |-> <<>>, err |-> "font is nil"]
    ELSE LET kind == IF font.fontPath \in DOMAIN disk
                     THEN disk[font.fontPath] ELSE "absent"
         IN IF kind \in {"absent", "noperm", "staterr"}
            THEN [art |-> <<>>, err |-> "failed to open font file"]
            ELSE [art |-> <<"figure", text, kind>>, err |-> "nil"]

\* The outcome of GenerateASCII's statements up to the font lookup: it
\* has returned (with err and the empty output), or it goes on to render
\* with the *Font the lookup gave.
Returns(err) == [returned |-> TRUE, font |-> NilFont, err |-> err]
RendersWith(font) == [returned |-> FALSE, font |-> font, err |-> "nil"]

\* Mutant of GenerateASCIILookup: the empty text is checked before the nil
\* cache.
GenerateASCIILookupEmptyTextFirst(text, optsFont, isNil, m) ==
    IF text = "" THEN Returns("nil")
    ELSE IF isNil THEN Returns("font cache is nil")
    ELSE LET font == GetFontOrDefault(m, optsFont, RenderDefaultFont)
         IN IF font = NilFont THEN Returns("no fonts loaded")
            ELSE RendersWith(font)

\* Mutant of GenerateASCIILookup: the font is looked up before the empty
\* text is checked.
GenerateASCIILookupFontFirst(text, optsFont, isNil, m) ==
    IF isNil THEN Returns("font cache is nil")
    ELSE LET font == GetFontOrDefault(m, optsFont, RenderDefaultFont)
         IN IF font = NilFont THEN Returns("no fonts loaded")
            ELSE IF text = "" THEN Returns("nil")
            ELSE RendersWith(font)

\* Mutant of GenerateASCIILookup: a nil font is rendered like any other.
GenerateASCIILookupKeepsNil(text, optsFont, isNil, m) ==
    IF isNil THEN Returns("font cache is nil")
    ELSE IF text = "" THEN Returns("nil")
    ELSE RendersWith(GetFontOrDefault(m, optsFont, RenderDefaultFont))

\* render.GenerateASCII(text, opts, cache) up to its font lookup: the nil
\* check, the empty text, and cache.GetFontOrDefault(opts.Font,
\* DefaultFont), which reads the map m under the read lock.
GenerateASCIILookup(text, optsFont, isNil, m) ==
    IF isNil THEN Returns("font cache is nil")
    ELSE IF text = "" THEN Returns("nil")
    ELSE LET font == GetFontOrDefault(m, optsFont, RenderDefaultFont)
         IN IF font = NilFont THEN Returns("no fonts loaded")
            ELSE RendersWith(font)

\* Mutant of GenerateASCIIRender: the error of Font.Render is dropped.
GenerateASCIIRenderDropsError(font, text, disk) ==
    [art |-> Render(font, text, disk).art, err |-> "nil"]

\* The rest of render.GenerateASCII: font.Render(text), made with no lock
\* held, on the disk as it is by then; (ascii, err), with "" as <<>>.
GenerateASCIIRender(font, text, disk) ==
    LET r == Render(font, text, disk)
    IN IF r.err # "nil"
       THEN [art |-> <<>>, err |-> "failed to render text"]
       ELSE [art |-> r.art, err |-> "nil"]

\* LoadFonts(dir) with Allowed = allowed, made under the write lock.
LoadFontsCall(dir, allowed) ==
    LET r == LoadFonts(fcFonts, dir, allowed, fs)
    IN /\ fcFonts' = r.fonts
       /\ lastLoad' = [called |-> TRUE, Path |-> dir,
                       Allowed |-> allowed, before |-> fcFonts,
                       err |-> r.err, loadedCount |-> r.loadedCount]

\* A LoadFonts call, made under the write lock. The methods of the cache
\* are called on a cache that exists.
FCLoadFonts ==
    /\ ~cacheNil
    /\ \E dir \in LoadDirs, allowed \in AllowLists :
        LoadFontsCall(dir, allowed)
    /\ UNCHANGED <<fs, lookup, renderVars, lockVars, cmVars, seqVars,
                   clientVars, sessVars, pureVars, shutdownVars>>

FCGetFont ==
    /\ ~cacheNil
    /\ \E name \in LookupNames :
        LET r == GetFont(fcFonts, name)
        IN /\ lookup' = [NoRead EXCEPT !.op = "GetFont", !.name = name,
                                        !.res = r.font,
                                        !.exists = r.exists]
           /\ fcFonts' = MapAfterIndex(fcFonts, name)
    /\ UNCHANGED <<fs, lastLoad, renderVars, lockVars, cmVars, seqVars,
                   clientVars, sessVars, pureVars, shutdownVars>>

FCGetFontOrDefault ==
    /\ ~cacheNil
    /\ \E name \in LookupNames, defaultName \in DefaultNames :
        LET r == GetFontOrDefault(fcFonts, name, defaultName)
        IN /\ lookup' = [NoRead EXCEPT !.op = "GetFontOrDefault",
                                        !.name = name, !.def = defaultName,
                                        !.res = r, !.exists = r # NilFont]
           /\ fcFonts' = MapAfterIndex(MapAfterIndex(fcFonts, name),
                                       defaultName)
    /\ UNCHANGED <<fs, lastLoad, renderVars, lockVars, cmVars, seqVars,
                   clientVars, sessVars, pureVars, shutdownVars>>

\* A ListFonts call.
FCListFonts ==
    /\ ~cacheNil
    /\ \E order \in KeyOrders(fcFonts) :
        lookup' = [NoRead EXCEPT !.op = "ListFonts",
                                 !.list = ListFonts(fcFonts, order)]
    /\ UNCHANGED <<fs, fcFonts, lastLoad, renderVars, lockVars, cmVars,
                   seqVars, clientVars, sessVars, pureVars, shutdownVars>>

\* GenerateASCII is called and runs up to its font lookup. It returns at
\* once for a nil cache, the empty text and a lookup that finds no font;
\* otherwise it has the *Font in hand and the read lock is released.
FCGenerateASCII ==
    /\ ~gen.active
    /\ \E text \in RenderTexts, optsFont \in LookupNames :
        \E l \in {GenerateASCIILookup(text, optsFont, cacheNil, fcFonts)} :
            /\ IF l.returned
               THEN /\ lookup' = [NoRead EXCEPT
                                    !.op = "GenerateASCII",
                                    !.name = optsFont,
                                    !.def = RenderDefaultFont,
                                    !.text = text, !.err = l.err]
                    /\ gen' = gen
               ELSE /\ gen' = [active |-> TRUE, text |-> text,
                               name |-> optsFont, font |-> l.font]
                    /\ lookup' = lookup
            /\ fcFonts' = IF cacheNil \/ text = "" THEN fcFonts
                          ELSE MapAfterIndex(
                                 MapAfterIndex(fcFonts, optsFont),
                                 RenderDefaultFont)
    /\ UNCHANGED <<fs, lastLoad, cacheNil, cfgDefault, conf, lockVars,
                   cmVars, seqVars, clientVars, sessVars, pureVars,
                   shutdownVars>>

\* The call renders with the font it looked up, on the disk as it is now,
\* and returns.
FCRender ==
    /\ gen.active
    /\ \E r \in {GenerateASCIIRender(gen.font, gen.text, fs)} :
        lookup' = [NoRead EXCEPT
                     !.op = "GenerateASCII", !.name = gen.name,
                     !.def = RenderDefaultFont, !.text = gen.text,
                     !.res = gen.font, !.art = r.art, !.err = r.err]
    /\ gen' = NoGen
    /\ UNCHANGED <<fs, fcFonts, lastLoad, cacheNil, cfgDefault, conf,
                   lockVars, cmVars, seqVars, clientVars, sessVars,
                   pureVars, shutdownVars>>

FontsNext ==
    \/ FCLoadFonts
    \/ FCGetFont
    \/ FCGetFontOrDefault
    \/ FCListFonts

\* The font cache of a server whose other parts are at rest.
SpecFonts == InitAtRest /\ [][FontsNext]_vars

\* ------------------------------ SpecFontsRW: FontCache.mu, step by step

\* The configurations the concurrent LoadFonts calls are made with.
RWDirs == {"./fonts", "/alt"}
RWAllowLists == {a \in AllowLists : Len(a) \in 1 .. 2}

\* Everything but the cache and its lock.
OutsideCache ==
    <<fs, lastLoad, lookup, renderVars, cmVars, seqVars, clientVars,
      sessVars, pureVars, shutdownVars>>

\* Mutant of CanRLock: a reader does not wait for the writer.
CanRLockAlways(m) == TRUE

\* fc.mu.Lock() returns when no goroutine holds the lock in either mode;
\* fc.mu.RLock() returns when no writer holds it.
CanLock(m) == ~m.writer /\ m.readerCount = 0
CanRLock(m) == ~m.writer

\* LoadFonts(cfg) is called and takes the write lock.
LFLock(g) ==
    /\ lpc[g] = "idle"
    /\ CanLock(mu)
    /\ mu' = [mu EXCEPT !.writer = TRUE]
    /\ lpc' = [lpc EXCEPT ![g] = "loop"]
    /\ \E dir \in RWDirs, allowed \in RWAllowLists :
        lload' = [lload EXCEPT
                    ![g] = [Path |-> dir, Allowed |-> allowed, i |-> 1]]
    /\ UNCHANGED <<fcFonts, seen, committed, OutsideCache>>

\* One pass of `for _, fontName := range cfg.Allowed`.
LFIterate(g) ==
    /\ lpc[g] = "loop"
    /\ lload[g].i <= Len(lload[g].Allowed)
    /\ fcFonts' = LoadLoop(<<lload[g].Allowed[lload[g].i]>>, 1,
                           lload[g].Path, fs, fcFonts, 0).fonts
    /\ lload' = [lload EXCEPT ![g].i = @ + 1]
    /\ UNCHANGED <<mu, lpc, seen, committed, OutsideCache>>

\* The loop is over: LoadFonts returns and its deferred Unlock runs.
LFUnlock(g) ==
    /\ lpc[g] = "loop"
    /\ lload[g].i > Len(lload[g].Allowed)
    /\ mu' = [mu EXCEPT !.writer = FALSE]
    /\ lpc' = [lpc EXCEPT ![g] = "idle"]
    /\ lload' = [lload EXCEPT
                    ![g] = [Path |-> "", Allowed |-> <<>>, i |-> 1]]
    /\ committed' = fcFonts
    /\ UNCHANGED <<fcFonts, seen, OutsideCache>>

\* GetFont, GetFontOrDefault or ListFonts is called and takes the read
\* lock.
RDRLock(g) ==
    /\ lpc[g] = "idle"
    /\ CanRLock(mu)
    /\ mu' = [mu EXCEPT !.readerCount = @ + 1]
    /\ lpc' = [lpc EXCEPT ![g] = "locked"]
    /\ UNCHANGED <<fcFonts, lload, seen, committed, OutsideCache>>

\* The reader reads fc.fonts.
RDRead(g) ==
    /\ lpc[g] = "locked"
    /\ seen' = [seen EXCEPT ![g] = fcFonts]
    /\ lpc' = [lpc EXCEPT ![g] = "read"]
    /\ UNCHANGED <<mu, fcFonts, lload, committed, OutsideCache>>

\* The reader returns and its deferred RUnlock runs.
RDRUnlock(g) ==
    /\ lpc[g] = "read"
    /\ mu' = [mu EXCEPT !.readerCount = @ - 1]
    /\ lpc' = [lpc EXCEPT ![g] = "idle"]
    /\ seen' = [seen EXCEPT ![g] = EmptyFonts]
    /\ UNCHANGED <<fcFonts, lload, committed, OutsideCache>>

LoaderStep(g) == LFLock(g) \/ LFIterate(g) \/ LFUnlock(g)
ReaderStep(g) == RDRLock(g) \/ RDRead(g) \/ RDRUnlock(g)

RWNext ==
    \/ \E g \in Loaders : LoaderStep(g)
    \/ \E g \in Readers : ReaderStep(g)

\* Goroutines that load and read one cache concurrently.
SpecFontsRW == InitAtRest /\ [][RWNext]_vars

\* ------------------------------------------ SpecRender: GenerateASCII

\* The allow-lists the caches of SpecRender were loaded with, from ./fonts.
RenderAllowLists ==
    {<<>>, <<"standard">>, <<"doom">>, <<"standard", "doom">>}
\* The values of the Fonts.Default setting: its envDefault and an override.
ConfiguredDefaults == {"standard", "doom"}
\* The font files that change on disk after LoadFonts, and what a change
\* leaves at the path: the file, a file with other contents, nothing, or
\* a file that cannot be opened.
RenderPaths == {FontPath("./fonts", "standard"), FontPath("./fonts", "doom")}
ChangedKinds == {"file", "file2", "absent", "noperm"}

\* GenerateASCII is handed a nil cache, or a cache on which LoadFonts has
\* been called once; the rest of the server is at rest.
RenderInit ==
    /\ CMInit /\ maxStreams = MaxCap
    /\ SeqInit /\ ClientInit
    /\ SessInit /\ fontCache = {}
    /\ PureInit /\ ShutdownInit /\ LockInit
    /\ fs = DiskA
    /\ lookup = NoRead
    /\ cfgDefault \in ConfiguredDefaults
    /\ gen = NoGen
    /\ conf = ConfStart(BaseEnv, NoDotenv)
    /\ \/ /\ cacheNil = TRUE
          /\ fcFonts = EmptyFonts
          /\ lastLoad = NoLoad
       \/ /\ cacheNil = FALSE
          /\ \E allowed \in RenderAllowLists :
                LET r == LoadFonts(EmptyFonts, "./fonts", allowed, DiskA)
                IN /\ fcFonts = r.fonts
                   /\ lastLoad = [called |-> TRUE, Path |-> "./fonts",
                                  Allowed |-> allowed,
                                  before |-> EmptyFonts, err |-> r.err,
                                  loadedCount |-> r.loadedCount]

\* Somebody outside the program replaces, removes or locks a font file.
DiskChange ==
    /\ \E path \in RenderPaths, kind \in ChangedKinds :
        /\ kind # fs[path]
        /\ fs' = [fs EXCEPT ![path] = kind]
    /\ UNCHANGED <<fcFonts, lastLoad, lookup, renderVars, lockVars, cmVars,
                   seqVars, clientVars, sessVars, pureVars, shutdownVars>>

\* LoadFonts is called again while the cache is in use, with the
\* configuration pointing at another directory.
ReloadDir == "/alt"
ReloadAllowLists == {<<"standard">>}
FCReloadFonts ==
    /\ ~cacheNil
    /\ \E allowed \in ReloadAllowLists : LoadFontsCall(ReloadDir, allowed)
    /\ UNCHANGED <<fs, lookup, renderVars, lockVars, cmVars, seqVars,
                   clientVars, sessVars, pureVars, shutdownVars>>

RenderNext ==
    \/ FCGenerateASCII
    \/ FCRender
    \/ FCReloadFonts
    \/ FCGetFont
    \/ FCGetFontOrDefault
    \/ FCListFonts
    \/ DiskChange

\* The reads of a loaded cache while the font files change on disk.
SpecRender == RenderInit /\ [][RenderNext]_vars

\* ------------------------------------------- SpecPure: the pure functions

\* Durations are in milliseconds, request timeouts in whole seconds.
DefaultStreamTimeout == 300000
MinSpeed == 1

\* Largest frame, line and column index given to getAnimatedColor.
MaxColorFrame == 17
MaxColorLine == 3
MaxColorCol == 8

\* The t parameter of a request (QueryInt accepts any integer) and the
\* configured max_stream_duration (validateConfig does not constrain it).
RequestedTimeouts == {0 - 1, 0, 1, 29, 30, 31, 100, 299, 300, 301, 600, 601,
                      700}
MaxStreamDurations == {500, 30000, 30500, 300000, 600000}
Speeds == ((0 - 3) .. 13) \cup {999}
Schemes == {"rainbow", "fire", "ocean", "matrix", "", "sparkle"}

\* time.Duration.Seconds() converted with int(): whole seconds, truncated.
WholeSeconds(d) == d \div 1000
\* time.Duration(n) * time.Second
SecondsToDuration(n) == n * 1000

\* partyHandler, "Apply timeout limits": opts.Timeout after the check.
ApplyTimeoutLimits(t, M) ==
    IF t = 0 \/ t > WholeSeconds(M)
    THEN WholeSeconds(DefaultStreamTimeout)
    ELSE t

\* streamAnimated, "Setup timeout with maximum limit": timeoutDuration.
StreamTimeoutDuration(optTimeout, M) ==
    IF optTimeout > 0
    THEN IF SecondsToDuration(optTimeout) > M
         THEN M
         ELSE SecondsToDuration(optTimeout)
    ELSE DefaultStreamTimeout

\* The duration the deadline timer of a request with parameter t is set to.
EffectiveDeadline(t, M) == StreamTimeoutDuration(ApplyTimeoutLimits(t, M), M)

\* Mutant of calculateFrameDelay: the lower clamp is missing.
calculateFrameDelayNoMin(speed) ==
    LET s == IF speed > MaxSpeed THEN MaxSpeed ELSE speed
    IN 220 - (s * 20)

\* calculateFrameDelay, in milliseconds.
calculateFrameDelay(speed) ==
    LET s1 == IF speed < MinSpeed THEN MinSpeed ELSE speed
        s2 == IF s1 > MaxSpeed THEN MaxSpeed ELSE s1
    IN 220 - (s2 * 20)

rainbowColors ==
    <<196, 202, 208, 214, 220, 226, 190, 154, 118, 82, 46, 47, 48, 49, 50,
      51>>
fireColors == <<52, 88, 124, 160, 196, 202, 208, 214, 220, 226>>
oceanColors == <<17, 18, 19, 20, 21, 25, 31, 37, 43, 49, 50, 51>>
matrixColors == <<46, 28>>

\* colors[position] of a Go slice: position counts from 0.
ColorAt(colors, position) == colors[position + 1]

\* Mutant of getAnimatedColor: an unknown scheme falls back to fire.
getAnimatedColorDefaultFire(scheme, f, line, col) ==
    CASE scheme = "rainbow" ->
            ColorAt(rainbowColors, (f + col * 2) % Len(rainbowColors))
      [] scheme = "ocean" ->
            ColorAt(oceanColors, (f + line + col * 2) % Len(oceanColors))
      [] scheme = "matrix" ->
            IF (f + line + col) % 17 = 0 THEN 46 ELSE 28
      [] OTHER ->
            ColorAt(fireColors, (f + line * 3 + col) % Len(fireColors))

\* getAnimatedColor: the colour of the character at (line, col) in frame f.
RECURSIVE getAnimatedColor(_, _, _, _)
getAnimatedColor(scheme, f, line, col) ==
    CASE scheme = "rainbow" ->
            ColorAt(rainbowColors, (f + col * 2) % Len(rainbowColors))
      [] scheme = "fire" ->
            ColorAt(fireColors, (f + line * 3 + col) % Len(fireColors))
      [] scheme = "ocean" ->
            ColorAt(oceanColors, (f + line + col * 2) % Len(oceanColors))
      [] scheme = "matrix" ->
            IF (f + line + col) % 17 = 0 THEN 46 ELSE 28
      [] OTHER -> getAnimatedColor("rainbow", f, line, col)

\* One call is made in a run: the function, its arguments, its result.
NoCallYet == pure.fn = "none"
PureCall(fn, scheme, a, b, c, res) ==
    /\ pure' = [fn |-> fn, scheme |-> scheme, a |-> a, b |-> b, c |-> c,
                res |-> res]
    /\ UNCHANGED <<cmVars, seqVars, clientVars, sessVars, shutdownVars,
                   fontVars>>

\* A party request with parameter t on a server with maximum M.
PureTimeout ==
    /\ NoCallYet
    /\ \E t \in RequestedTimeouts, M \in MaxStreamDurations :
        PureCall("timeout", "", t, M, 0, EffectiveDeadline(t, M))

PureFrameDelay ==
    /\ NoCallYet
    /\ \E speed \in Speeds :
        PureCall("delay", "", speed, 0, 0, calculateFrameDelay(speed))

PureColor ==
    /\ NoCallYet
    /\ \E scheme \in Schemes, f \in 0 .. MaxColorFrame,
          line \in 0 .. MaxColorLine, col \in 0 .. MaxColorCol :
        PureCall("color", scheme, f, line, col,
                 getAnimatedColor(scheme, f, line, col))

PureNext == PureTimeout \/ PureFrameDelay \/ PureColor

SpecPure == InitAtRest /\ [][PureNext]_vars

\* -------------------------------- SpecConfigSeq: config, one call at a time

\* Everything but package config, and its start.
OutsideConfig ==
    <<cmVars, seqVars, clientVars, sessVars, pureVars, shutdownVars,
      fs, fcFonts, lastLoad, lookup, cacheNil, cfgDefault, gen,
      lockVars>>
OutsideConfigInit ==
    /\ CMInit /\ maxStreams = MaxCap
    /\ SeqInit /\ ClientInit
    /\ SessInit /\ fontCache = {}
    /\ PureInit /\ ShutdownInit /\ LockInit
    /\ fs = DiskA /\ fcFonts = EmptyFonts
    /\ lastLoad = NoLoad /\ lookup = NoRead
    /\ cacheNil = FALSE /\ cfgDefault = "standard" /\ gen = NoGen

\* Load() run from call to return on package state c: once.Do runs the
\* function unless the done flag is set.
LoadCall(c) ==
    IF OnceSkips(c.done) THEN c
    ELSE LET b == LoadBody(c.env, c.dotenv, c.allocs + 1)
         IN [c EXCEPT !.done = TRUE, !.instance = b.instance,
                      !.loadErr = b.loadErr, !.env = b.env,
                      !.allocs = @ + 1, !.bodyRuns = @ + 1]

\* Reset(): a fresh sync.Once, instance and loadErr nil, the .env file
\* removed.
ResetCall(c) ==
    [c EXCEPT !.done = FALSE, !.holder = 0, !.instance = NilConfig,
              !.loadErr = "nil", !.dotenv = NoDotenv,
              !.bodyRuns = 0, !.first = NoFirst, !.changed = FALSE]

\* LoadFromEnv(envVars) up to its return statement: the environment is
\* saved, cleared and set to envVars, then Reset and Load run, then the
\* environment is cleared and set from the saved strings.
LoadFromEnvCall(c, envVars) ==
    LET originalEnv == Environ(c.env)
        c1 == LoadCall(ResetCall([c EXCEPT !.env = envVars]))
    IN [c1 EXCEPT !.env = RestoreEnv(originalEnv)]

\* The value a call returns, as the caller sees it, with what held when
\* it was made: whether a Load had returned since the last Reset, whether
\* the environment had changed since that Load, whether a Load had
\* succeeded, and for LoadFromEnv the environment and the map it is given.
Returned(op, inst, err, panicked, after, changed, ok, before, given) ==
    [op |-> op, instance |-> inst, err |-> err, panicked |-> panicked,
     afterFirst |-> after, envChanged |-> changed,
     loadOk |-> ok, envBefore |-> before, given |-> given]

\* What Load returned the first time since the last Reset.
FirstAfter(c, inst, err) ==
    IF c.first.set THEN c.first
    ELSE [set |-> TRUE, instance |-> inst, err |-> err]

\* A Load since the last Reset has run the function of once.Do to its
\* end, and it left a Config and no error.
LoadSucceeded(c) == c.done /\ ~c.instance.isNil /\ c.loadErr = "nil"

\* Get() on package state c: it panics when instance is nil and when
\* loadErr is not, and returns instance otherwise.
GetPanics(c) == c.instance.isNil \/ c.loadErr # "nil"
GetCall(c) ==
    Returned("Get", IF GetPanics(c) THEN NilConfig ELSE c.instance,
             "nil", GetPanics(c), c.first.set, c.changed,
             LoadSucceeded(c), NoVars, NoVars)

\* cfg, err := config.Load()
CSLoad ==
    /\ conf.done \/ conf.allocs < MaxAllocs
    /\ \E c \in {LoadCall(conf)} :
          conf' = [c EXCEPT
                !.first = FirstAfter(conf, c.instance, c.loadErr),
                !.last = Returned("Load", c.instance, c.loadErr, FALSE,
                                  conf.first.set, FALSE, FALSE, NoVars, NoVars)]
    /\ UNCHANGED OutsideConfig

\* cfg := config.MustLoad(): the panic is recovered by the caller.
CSMustLoad ==
    /\ conf.done \/ conf.allocs < MaxAllocs
    /\ \E c \in {LoadCall(conf)} :
          conf' = [c EXCEPT
                !.first = FirstAfter(conf, c.instance, c.loadErr),
                !.last = Returned("MustLoad",
                                  IF c.loadErr # "nil" THEN NilConfig
                                  ELSE c.instance,
                                  c.loadErr, c.loadErr # "nil",
                                  conf.first.set, FALSE, FALSE, NoVars, NoVars)]
    /\ UNCHANGED OutsideConfig

\* cfg := config.Get(): the panic is recovered by the caller.
CSGet ==
    /\ conf' = [conf EXCEPT
            !.last = GetCall(conf)]
    /\ UNCHANGED OutsideConfig

\* config.Reset()
CSReset ==
    /\ conf.allocs < MaxAllocs
    /\ conf' = [ResetCall(conf) EXCEPT
            !.last = Returned("Reset", NilConfig, "nil", FALSE, FALSE,
                              FALSE, FALSE, NoVars, NoVars)]
    /\ UNCHANGED OutsideConfig

\* cfg, err := config.LoadFromEnv(envVars)
CSLoadFromEnv ==
    /\ conf.allocs < MaxAllocs
    /\ \E envVars \in GivenEnvs :
        \E c \in {LoadFromEnvCall(conf, envVars)} :
           conf' = [c EXCEPT
                !.first = [set |-> TRUE, instance |-> c.instance,
                           err |-> c.loadErr],
                !.last = Returned("LoadFromEnv", c.instance, c.loadErr,
                                  FALSE, FALSE, FALSE, FALSE, conf.env,
                                  envVars)]
    /\ UNCHANGED OutsideConfig

ConfigSeqInit ==
    /\ OutsideConfigInit
    /\ \E env \in StartEnvs : \E dotenv \in DotenvFiles :
            conf = ConfStart(env, dotenv)

ConfigSeqNext ==
    CSLoad \/ CSMustLoad \/ CSGet \/ CSReset \/ CSLoadFromEnv

SpecConfigSeq == ConfigSeqInit /\ [][ConfigSeqNext]_vars

\* ---------------------------- SpecConfig: config, concurrent goroutines

\* The value Load returns to its caller: the program (op Load), or
\* MustLoad, which panics when the error is not nil.
LoadReturn(c, op) ==
    LET failed == c.loadErr # "nil"
    IN Returned(op,
                IF op = "MustLoad" /\ failed THEN NilConfig ELSE c.instance,
                c.loadErr, op = "MustLoad" /\ failed,
                c.first.set, c.changed, FALSE, NoVars, NoVars)

\* g calls Load, directly or through MustLoad: once.Do reads the done
\* flag.
CCCall(g) ==
    /\ conf.cpos[g] = "idle"
    /\ conf' = [conf EXCEPT
            !.cpos[g] = IF OnceSkips(conf.done) THEN "return" ELSE "lock"]
    /\ UNCHANGED OutsideConfig

\* doSlow: g takes the mutex of once and reads the done flag again.
CCLock(g) ==
    /\ conf.cpos[g] = "lock"
    /\ conf.holder = 0
    /\ conf' = [conf EXCEPT
            !.holder = g,
            !.cpos[g] = IF OnceSkips(conf.done) THEN "unlock" ELSE "alloc"]
    /\ UNCHANGED OutsideConfig

\* instance = &Config{}; _ = godotenv.Load()
CCAlloc(g) ==
    /\ conf.cpos[g] = "alloc"
    /\ conf' = [conf EXCEPT
            !.instance = ConfigPtr(conf.allocs + 1, ZeroConfig),
            !.allocs = @ + 1,
            !.bodyRuns = @ + 1,
            !.env = DotenvLoad(conf.env, conf.dotenv),
            !.cpos[g] = "parse"]
    /\ UNCHANGED OutsideConfig

\* env.Parse(instance): the fields are filled, or loadErr is set.
CCParse(g) ==
    /\ conf.cpos[g] = "parse"
    /\ \E p \in {EnvParse(conf.env)} :
        conf' = IF p.ok
                THEN [conf EXCEPT !.instance.c = p.cfg,
                                  !.cpos[g] = "validate"]
                ELSE [conf EXCEPT
                        !.loadErr = "failed to parse environment variables",
                        !.cpos[g] = "clear"]
    /\ UNCHANGED OutsideConfig

\* instance.Validate(): loadErr is set when it fails.
CCValidate(g) ==
    /\ conf.cpos[g] = "validate"
    /\ conf' = IF Validate(conf.instance.c) = "nil"
               THEN [conf EXCEPT !.cpos[g] = "finish"]
               ELSE [conf EXCEPT
                        !.loadErr = "configuration validation failed",
                        !.cpos[g] = "clear"]
    /\ UNCHANGED OutsideConfig

\* instance = nil // Clear instance on error
CCClear(g) ==
    /\ conf.cpos[g] = "clear"
    /\ conf' = [conf EXCEPT
            !.instance = InstanceOnError(conf.instance),
            !.cpos[g] = "finish"]
    /\ UNCHANGED OutsideConfig

\* The function returns: the deferred o.done.Store(1) runs.
CCFinish(g) ==
    /\ conf.cpos[g] = "finish"
    /\ conf' = [conf EXCEPT !.done = TRUE, !.cpos[g] = "unlock"]
    /\ UNCHANGED OutsideConfig

\* The deferred o.m.Unlock() runs.
CCUnlock(g) ==
    /\ conf.cpos[g] = "unlock"
    /\ conf' = [conf EXCEPT !.holder = 0, !.cpos[g] = "return"]
    /\ UNCHANGED OutsideConfig

\* return instance, loadErr, to the program or to MustLoad.
CCReturn(g) ==
    /\ conf.cpos[g] = "return"
    /\ \E op \in {"Load", "MustLoad"} :
        conf' = [conf EXCEPT
            !.last = LoadReturn(conf, op),
            !.first = FirstAfter(conf, conf.instance, conf.loadErr),
            !.cpos[g] = "idle"]
    /\ UNCHANGED OutsideConfig

\* g calls Get. The three reads of Get are separate and unsynchronised,
\* so the goroutines inside Load write between them.
\* if instance == nil { panic("config not loaded: call Load() first") }
CCGetInstance(g) ==
    /\ conf.cpos[g] = "idle"
    /\ conf' = IF conf.instance.isNil
               THEN [conf EXCEPT
                        !.last = Returned("Get", NilConfig, "nil", TRUE,
                                          conf.first.set, conf.changed,
                                          LoadSucceeded(conf), NoVars, NoVars)]
               ELSE [conf EXCEPT
                        !.get[g] = [instance |-> conf.instance,
                                    afterFirst |-> conf.first.set,
                                    changed |-> conf.changed,
                                    loadOk |-> LoadSucceeded(conf)],
                        !.cpos[g] = "getErr"]
    /\ UNCHANGED OutsideConfig

\* if loadErr != nil { panic("config loading failed: ...") }
CCGetLoadErr(g) ==
    /\ conf.cpos[g] = "getErr"
    /\ conf' = IF conf.loadErr # "nil"
               THEN [conf EXCEPT
                        !.last = Returned("Get", NilConfig, "nil", TRUE,
                                          conf.get[g].afterFirst,
                                          conf.get[g].changed,
                                          conf.get[g].loadOk, NoVars, NoVars),
                        !.get[g] = NoGet,
                        !.cpos[g] = "idle"]
               ELSE [conf EXCEPT !.cpos[g] = "getRet"]
    /\ UNCHANGED OutsideConfig

\* return instance: the build returns the pointer the first read gave
\* or reads the variable again. A Load that has succeeded by now counts
\* for the call.
CCGetReturn(g) ==
    /\ conf.cpos[g] = "getRet"
    /\ \E inst \in {conf.get[g].instance, conf.instance} :
        conf' = [conf EXCEPT
            !.last = Returned("Get", inst, "nil", FALSE,
                              conf.get[g].afterFirst, conf.get[g].changed,
                              LoadSucceeded(conf), NoVars, NoVars),
            !.get[g] = NoGet,
            !.cpos[g] = "idle"]
    /\ UNCHANGED OutsideConfig

\* Reset(), made between tests: no goroutine is inside Load or Get.
CCReset ==
    /\ \A g \in Callers : conf.cpos[g] = "idle"
    /\ conf.allocs < MaxAllocs
    /\ conf' = [ResetCall(conf) EXCEPT
            !.last = Returned("Reset", NilConfig, "nil", FALSE, FALSE,
                              FALSE, FALSE, NoVars, NoVars)]
    /\ UNCHANGED OutsideConfig

\* The environment of the process changes (os.Setenv, os.Unsetenv) after
\* Load has returned.
CCEnvChange ==
    /\ conf.first.set
    /\ \E env \in PortEnvs \ {conf.env} :
            conf' = [conf EXCEPT !.env = env, !.changed = TRUE]
    /\ UNCHANGED OutsideConfig

ConfigInit ==
    /\ OutsideConfigInit
    /\ \E env \in PortEnvs : conf = ConfStart(env, NoDotenv)

CallerStep(g) ==
    \/ CCCall(g) \/ CCLock(g) \/ CCAlloc(g) \/ CCParse(g)
    \/ CCValidate(g) \/ CCClear(g) \/ CCFinish(g) \/ CCUnlock(g)
    \/ CCReturn(g)
    \/ CCGetInstance(g) \/ CCGetLoadErr(g) \/ CCGetReturn(g)

ConfigNext ==
    \/ \E g \in Callers : CallerStep(g)
    \/ CCReset
    \/ CCEnvChange

SpecConfig == ConfigInit /\ [][ConfigNext]_vars

\* ------------------------------------------------------------ properties

\* Calls 1..k of the trace: successful TryAcquires, Releases, slots held.
RECURSIVE NumTrue(_)
NumTrue(k) ==
    IF k = 0 THEN 0
    ELSE NumTrue(k - 1)
         + (IF trace[k].op = "TryAcquire" /\ trace[k].ret THEN 1 ELSE 0)
RECURSIVE NumReleases(_)
NumReleases(k) ==
    IF k = 0 THEN 0
    ELSE NumReleases(k - 1) + (IF trace[k].op = "Release" THEN 1 ELSE 0)
Held(k) == NumTrue(k) - NumReleases(k)
\* Every Release among calls 1..k gives back a slot that a successful
\* TryAcquire took and no earlier Release gave back.
Paired(k) ==
    \A i \in 1 .. k : trace[i].op = "Release" => Held(i - 1) >= 1

\* C1 (SpecCM): with concurrent TryAcquire calls and no Release, neither
\* the number of calls that returned true nor activeStreams exceeds
\* maxStreams. (Stated for capacities >= 1, where the counter starts within
\* the capacity.)
C1_NoOverAdmission ==
    (maxStreams >= 1 /\ nReleased = 0) =>
        /\ activeStreams <= maxStreams
        /\ nTrue <= maxStreams

\* The request was routed to partyHandler.
Party(s) == pc[s] \in {"loaded", "admitted", "returning", "done"}

\* A request is Closed when its handler has returned and no stream writer
\* of it is still running.
Closed(s) == pc[s] = "done" /\ sw[s] \in {"none", "exited"}
Streaming(s) == sw[s] = "loop"

\* C2 (Spec): an admitted request never calls Release more often than
\* once, has called it exactly once when its handler has returned (so also
\* when it is Closed), and until then its handler can always take its next
\* step: no exit path skips the Release or waits before it.
C2_ReleaseExactlyOnce ==
    \A s \in Sessions :
        /\ released[s] <= acquired[s]
        /\ acquired[s] <= 1
        /\ pc[s] = "done" => released[s] = acquired[s]
        /\ Closed(s) => released[s] = acquired[s]
        /\ (acquired[s] = 1 /\ released[s] = 0) => ENABLED HandlerStep(s)
\* The same as a leads-to, under FairSpec.
EventuallyReleased ==
    \A s \in Sessions : (acquired[s] = 1) ~> (released[s] = 1)
C2_Witness ==
    \E s, u \in Sessions :
        /\ Closed(s) /\ resp[s] = RespStream /\ sw[s] = "exited"
        /\ released[s] = 1
        /\ Closed(u) /\ resp[u].status = 400 /\ released[u] = 1

\* C3 (Spec): while a request's animation loop is Streaming, its Release
\* has not been called and the active count includes it.
C3_SlotHeldWhileStreaming ==
    \A s \in Sessions :
        Streaming(s) => (released[s] = 0 /\ activeStreams >= 1)

\* C4 as claimed (SpecSeq): after any sequence of TryAcquire and Release
\* calls 0 <= activeStreams <= maxStreams. (Stated for capacities >= 0
\* only, which an unpaired Release already refutes.)
C4_Original ==
    maxStreams >= 0 => (0 <= activeStreams /\ activeStreams <= maxStreams)
\* C4 as amended (SpecSeq): for a capacity >= 0 and a sequence of calls in
\* which every Release is paired with an earlier successful TryAcquire not
\* yet released, 0 <= activeStreams <= maxStreams.
C4_BoundedWhenPaired ==
    (maxStreams >= 0 /\ Paired(Len(trace))) =>
        (0 <= activeStreams /\ activeStreams <= maxStreams)
C4_Witness ==
    /\ maxStreams = 2
    /\ Paired(Len(trace))
    /\ NumReleases(Len(trace)) >= 1
    /\ activeStreams = maxStreams

\* C5 (SpecSeq): a TryAcquire run without interference returns true
\* exactly when activeStreams < maxStreams and then adds exactly 1; it
\* returns false otherwise and leaves the counter alone. No call changes
\* maxStreams.
C5_TryAcquireContract ==
    \A i \in 1 .. Len(trace) :
        /\ trace[i].maxAfter = trace[i].maxBefore
        /\ trace[i].maxAfter = maxStreams
        /\ trace[i].op = "TryAcquire" =>
            /\ trace[i].ret <=> (trace[i].before < trace[i].maxBefore)
            /\ trace[i].ret => trace[i].after = trace[i].before + 1
            /\ ~trace[i].ret => trace[i].after = trace[i].before
C5_Witness ==
    \E i, j \in 1 .. Len(trace) :
        /\ trace[i].op = "TryAcquire" /\ trace[i].ret
        /\ trace[j].op = "TryAcquire" /\ ~trace[j].ret
        /\ trace[j].before = maxStreams /\ maxStreams >= 1

\* C6 (SpecSeq): for a capacity N >= 1, the TryAcquire that follows N
\* successful TryAcquires with no Release returns false, and the
\* TryAcquire that follows a Release made while all N were held returns
\* true.
C6_FullThenFreed ==
    maxStreams >= 1 =>
        \A i \in 1 .. Len(trace) :
            /\ ( /\ trace[i].op = "TryAcquire"
                 /\ NumReleases(i - 1) = 0
                 /\ NumTrue(i - 1) = maxStreams ) => ~trace[i].ret
            /\ ( /\ trace[i].op = "TryAcquire"
                 /\ i >= 2
                 /\ trace[i - 1].op = "Release"
                 /\ Paired(i - 2)
                 /\ Held(i - 2) = maxStreams ) => trace[i].ret
C6_Witness ==
    /\ maxStreams = 2
    /\ Len(trace) = 5
    /\ trace[1].op = "TryAcquire" /\ trace[1].ret
    /\ trace[2].op = "TryAcquire" /\ trace[2].ret
    /\ trace[3].op = "TryAcquire" /\ ~trace[3].ret
    /\ trace[4].op = "Release"
    /\ trace[5].op = "TryAcquire" /\ trace[5].ret

\* No TryAcquire or Release is in progress.
Quiescent == \A c \in Clients : cpc[c] = "idle"

\* C7 (SpecCM): at every quiescent point GetActiveCount is the number of
\* TryAcquire calls that returned true minus the number of Release calls.
C7_CountIsAcquiresMinusReleases ==
    Quiescent => GetActiveCount = nTrue - nReleased
C7_Witness ==
    /\ Quiescent
    /\ maxStreams = 1
    /\ nTrue = 2
    /\ nReleased = 1
    /\ GetActiveCount = 1

\* C8 (Spec): a request whose TryAcquire returned false ends at once with
\* the capacity response; it added nothing to the active count, never
\* calls Release, starts no timer and no stream writer, writes nothing.
C8_RejectedTouchesNothing ==
    \A s \in Sessions :
        /\ (Party(s) /\ pc[s] # "loaded" /\ acquired[s] = 0) =>
                (pc[s] = "done" /\ resp[s] = RespCapacity)
        /\ resp[s] = RespCapacity =>
            /\ pc[s] = "done"
            /\ acquired[s] = 0
            /\ released[s] = 0
            /\ sw[s] = "none"
            /\ timer[s] = "none"
            /\ out[s] = <<>>
C8_Witness ==
    \E s, u \in Sessions :
        /\ resp[s] = RespCapacity
        /\ maxStreams = 1
        /\ Streaming(u) /\ released[u] = 0

RECURSIVE SumNet(_)
SumNet(S) ==
    IF S = {} THEN 0
    ELSE LET s == CHOOSE x \in S : TRUE
         IN (acquired[s] - released[s]) + SumNet(S \ {s})

\* C9 (Spec): a request whose render step failed gets the error response,
\* has no stream writer, no timer and no output, and once its handler has
\* returned its slot is released: the active count, which is the sum of
\* the slots the requests hold, no longer includes it.
C9_RenderFailureReleases ==
    /\ activeStreams = SumNet(Sessions)
    /\ \A s \in Sessions :
        (Party(s) /\ resp[s] = RespRenderError) =>
            /\ acquired[s] = 1
            /\ sw[s] = "none"
            /\ timer[s] = "none"
            /\ out[s] = <<>>
            /\ pc[s] = "done" => released[s] = 1
C9_Witness ==
    \E s \in Sessions :
        /\ resp[s] = RespRenderError
        /\ pc[s] = "done"
        /\ released[s] = 1
        /\ activeStreams = 0
        /\ fontCache # {}

\* The response partyHandler gives when validateOptions fails.
InvalidOptions(r) ==
    r.status = 400 /\ r \notin {RespNoText, RespNoValidChars}

\* C10 (Spec): a request rejected for invalid options was rejected without
\* TryAcquire having incremented the active count for it.
C10_ValidationBeforeAdmission ==
    \A s \in Sessions :
        (Party(s) /\ InvalidOptions(resp[s])) => acquired[s] = 0

\* The frame indices a stream has written to its body, in order.
IsFrame(e) == e[1] = "frame"
FramesWritten(s) == SelectSeq(out[s], IsFrame)

\* C13 (Spec): the frames of one stream are written with the indices
\* 0, 1, 2, ... in this order, so none is written twice and none after a
\* higher one; the counter is the number of frames flushed successfully,
\* so it is never reset or decreased while frames have been written.
C13_FramesInOrder ==
    \A s \in Sessions :
        /\ \A i \in 1 .. Len(FramesWritten(s)) :
                FramesWritten(s)[i][2] = i - 1
        /\ frame[s] \in {Len(FramesWritten(s)), Len(FramesWritten(s)) - 1}
        /\ sw[s] = "loop" => frame[s] = Len(FramesWritten(s))
C13_Witness ==
    \E s \in Sessions :
        /\ FramesWritten(s) = <<(<<"frame", 0>>), (<<"frame", 1>>)>>
        /\ frame[s] = 2

\* C14 (Spec): an animation loop that is Streaming cannot stay there
\* forever, because its deadline ends it: in every state in which the loop
\* is Streaming the deadline timer can still fire or has fired and the
\* loop's deadline case is ready. (Otherwise only a failed flush, which a
\* client that stays connected never causes, would end the loop.)
C14_DeadlineEndsStreaming ==
    \A s \in Sessions :
        Streaming(s) => (ENABLED TimerFire(s) \/ ENABLED SWTimeout(s))
\* The same as a leads-to, under LiveSpec: every request whose loop is
\* Streaming eventually is Closed.
StreamingEnds ==
    \A s \in Sessions : Streaming(s) ~> Closed(s)

\* The stream writer ended on a failed flush: the last thing it wrote is a
\* frame (an exit by deadline writes the colour reset last).
ExitedOnFailedFlush(s) ==
    /\ sw[s] = "exited"
    /\ out[s] # <<>>
    /\ IsFrame(out[s][Len(out[s])])

\* C15 (Spec): a stream writer whose flush failed has exited and can take
\* no further step (no retry, no further frame); the counter still has the
\* index of the frame that failed; the response stays the 200 stream
\* response and no error is counted for it.
C15_FailedFlushEndsStream ==
    \A s \in Sessions :
        ExitedOnFailedFlush(s) =>
            /\ ~ENABLED WriterStep(s)
            /\ frame[s] = out[s][Len(out[s])][2]
            /\ resp[s] = RespStream
            /\ metrics.TotalErrors =
                    Cardinality({u \in Sessions :
                                    \/ resp[u] = RespRenderError
                                    \/ resp[u] = RespError(500)})
\* A stream ended on the failed flush of its second frame, beside a
\* request that ended in customErrorHandler with a 500: one error counted.
C15_Witness ==
    \E s, u \in Sessions :
        /\ ExitedOnFailedFlush(s)
        /\ FramesWritten(s) = <<(<<"frame", 0>>), (<<"frame", 1>>)>>
        /\ frame[s] = 1
        /\ pc[s] = "done"
        /\ pc[u] = "failed" /\ resp[u] = RespError(500)
        /\ metrics.TotalErrors = 1

\* C16 (LiveShutdownSpec): once the shutdown signal has arrived, every
\* stream that is Streaming leaves Streaming: the signal is an exit
\* trigger of the animation loop.
C16_ShutdownDrainsStreams ==
    \A s \in ShutdownSessions :
        (gs # "running" /\ Streaming(s)) ~> ~Streaming(s)

\* C17 (FairShutdownSpec): after the signal gracefulShutdown always gets
\* to os.Exit unless main returns first, whatever the requests do, so the
\* process always ends; the wait loop sleeps only when the active
\* count is above 0 and the grace period is not over, and leaves the wait
\* loop only when one of the two no longer holds.
C17_ShutdownCompletes ==
    /\ (gs = "shutting") ~> Exited
    /\ [][/\ (gs = "waiting" /\ gs' = "sleeping") =>
                (GetActiveCount > 0 /\ ~graceOver)
          /\ (gs = "waiting" /\ gs' = "checked") =>
                (GetActiveCount <= 0 \/ graceOver)]_vars
C17_Witness ==
    /\ gs = "exit0warned"
    /\ graceOver
    /\ GetActiveCount > 0
    /\ \E s \in ShutdownSessions : acquired[s] = 1 /\ released[s] = 0

Range(f) == {f[i] : i \in DOMAIN f}

\* The file at a path exists, is not a directory and can be opened.
FileOK(path, disk) ==
    path \in DOMAIN disk /\ disk[path] \in {"file", "file2"}

\* C19 (SpecFonts): after LoadFonts on an empty cache with directory D and
\* allow-list A the cache holds exactly the names of A whose file
\* D/name.flf exists, is not a directory and can be opened, each with that
\* path, whatever fails before or after them in A; LoadFonts returns no
\* error in any case.
C19_LoadFontsKeepsValid ==
    lastLoad.called =>
        /\ lastLoad.err = "nil"
        /\ lastLoad.before = EmptyFonts =>
            /\ DOMAIN fcFonts =
                  {n \in Range(lastLoad.Allowed) :
                      FileOK(FontPath(lastLoad.Path, n), fs)}
            /\ \A n \in DOMAIN fcFonts :
                  fcFonts[n] = [Name |-> n,
                                fontPath |-> FontPath(lastLoad.Path, n)]
C19_Witness ==
    /\ lastLoad.called
    /\ lastLoad.before = EmptyFonts
    /\ lastLoad.Path = "./fonts"
    /\ lastLoad.Allowed = <<"missing-file", "standard", "doom">>
    /\ fs = DiskA
    /\ DOMAIN fcFonts = {"standard", "doom"}
    /\ lastLoad.loadedCount = 2
    /\ lastLoad.err = "nil"

\* C20 as claimed (SpecFonts): a name that is in the cache stays in it
\* with the same Font value, name and resource path, whatever cache
\* operation is made, a LoadFonts with another directory included.
C20_Original ==
    [][\A n \in DOMAIN fcFonts :
            n \in DOMAIN fcFonts' /\ fcFonts'[n] = fcFonts[n]]_vars
\* C20 as amended (SpecFonts): a name that is in the cache stays in it and
\* its Font keeps its name; the resource path changes only in a LoadFonts
\* call with another directory whose allow-list holds the name and whose
\* file for it is valid, and then becomes the path in that directory.
C20_FontReplacedOnlyByReload ==
    [][\A n \in DOMAIN fcFonts :
            /\ n \in DOMAIN fcFonts'
            /\ fcFonts'[n].Name = n
            /\ fcFonts'[n] # fcFonts[n] =>
                /\ lastLoad'.called
                /\ lastLoad'.before = fcFonts
                /\ FontPath(lastLoad'.Path, n) # fcFonts[n].fontPath
                /\ n \in Range(lastLoad'.Allowed)
                /\ FileOK(FontPath(lastLoad'.Path, n), fs)
                /\ fcFonts'[n].fontPath = FontPath(lastLoad'.Path, n)]_vars
C20_Witness ==
    /\ lastLoad.called
    /\ lastLoad.Path = "/alt"
    /\ "standard" \in DOMAIN lastLoad.before
    /\ lastLoad.before["standard"].fontPath = FontPath("./fonts", "standard")
    /\ fcFonts["standard"].fontPath = FontPath("/alt", "standard")
    /\ "doom" \in DOMAIN fcFonts
    /\ fcFonts["doom"].fontPath = FontPath("./fonts", "doom")

Min(x, y) == IF x <= y THEN x ELSE y

\* C11 (SpecPure): for a requested timeout t >= 0 and a server maximum M
\* the effective deadline is min(t, M) when t > 0 and
\* min(serverDefault, M) when t = 0, and never exceeds M.
C11_EffectiveDeadline ==
    (pure.fn = "timeout" /\ pure.a >= 0) =>
        /\ pure.a > 0 => pure.res = Min(SecondsToDuration(pure.a), pure.b)
        /\ pure.a = 0 => pure.res = Min(DefaultStreamTimeout, pure.b)
        /\ pure.res <= pure.b

\* C12 (SpecPure): calculateFrameDelay gives 200ms, the delay of speed 1,
\* for every speed below 1 and 20ms, the delay of speed 10, for every speed
\* above 10; from 1 to 10 the delay strictly decreases; it is always
\* positive.
C12_FrameDelayClamped ==
    pure.fn = "delay" =>
        /\ pure.a <= 1 => pure.res = 200
        /\ pure.a >= 10 => pure.res = 20
        /\ (pure.a >= 1 /\ pure.a < 10) =>
                calculateFrameDelay(pure.a + 1) < pure.res
        /\ pure.res > 0
C12_Witness == pure.fn = "delay" /\ pure.a = 999 /\ pure.res = 20

\* The palette a scheme name selects.
PaletteOf(scheme) ==
    CASE scheme = "fire" -> fireColors
      [] scheme = "ocean" -> oceanColors
      [] scheme = "matrix" -> matrixColors
      [] OTHER -> rainbowColors

\* C18 (SpecPure): for non-negative frame, line and column
\* getAnimatedColor returns a colour of the selected scheme's palette
\* (the index it computes is within the palette), and for a scheme name
\* it does not know exactly the colour it returns for rainbow.
C18_ColorFromPalette ==
    pure.fn = "color" =>
        /\ pure.res \in Range(PaletteOf(pure.scheme))
        /\ pure.scheme \notin {"rainbow", "fire", "ocean", "matrix"} =>
              pure.res =
                rainbowColors[((pure.a + pure.c * 2) % 16) + 1]
C18_Witness ==
    /\ pure.fn = "color"
    /\ pure.scheme = "sparkle"
    /\ pure.a = 16
    /\ pure.c = 8
    /\ pure.res = 196


\* ---------------------------------------------- reads of the font cache

\* A step in which a read of the cache returned something new.
ReadReturns == lookup' # lookup

\* C21: GetFontOrDefault(name, defaultName) returns the font stored under
\* name when there is one, also when the default is stored too; otherwise
\* the font stored under defaultName; otherwise nil. GetFont(name) returns
\* (font, true) exactly when a font is stored under name, and (nil, false)
\* otherwise.
C21_LookupsReturnStoredFont ==
    [][ReadReturns =>
        /\ lookup'.op = "GetFontOrDefault" =>
            lookup'.res =
                IF lookup'.name \in DOMAIN fcFonts
                THEN fcFonts[lookup'.name]
                ELSE IF lookup'.def \in DOMAIN fcFonts
                     THEN fcFonts[lookup'.def]
                     ELSE NilFont
        /\ lookup'.op = "GetFont" =>
            /\ lookup'.exists <=> lookup'.name \in DOMAIN fcFonts
            /\ lookup'.exists => lookup'.res = fcFonts[lookup'.name]
            /\ ~lookup'.exists => lookup'.res = NilFont]_vars

\* GetFontOrDefault returned the named font while the default was stored.
C21_Witness ==
    /\ lookup.op = "GetFontOrDefault"
    /\ lookup.name = "doom"
    /\ lookup.def = "standard"
    /\ {"doom", "standard"} \subseteq DOMAIN fcFonts
    /\ lookup.res = fcFonts["doom"]
    /\ lookup.res # fcFonts["standard"]

\* Each name of the list is less than the next one.
Ascending(list) ==
    \A i \in 1 .. Len(list) - 1 : StringLess(list[i], list[i + 1])

\* C22: ListFonts returns exactly the names stored in the cache when it is
\* called, each once, in ascending order (the empty list for an empty
\* cache), and a later write to the cache does not alter a list that was
\* returned.
C22_ListFontsSortedSnapshot ==
    [][/\ (ReadReturns /\ lookup'.op = "ListFonts") =>
            /\ Range(lookup'.list) = DOMAIN fcFonts
            /\ Len(lookup'.list) = Cardinality(DOMAIN fcFonts)
            /\ Ascending(lookup'.list)
       /\ fcFonts' # fcFonts => lookup' = lookup]_vars

\* A list of one name was returned, and a later LoadFonts call stored a
\* second name, which the list does not hold.
C22_Witness ==
    /\ lookup.op = "ListFonts"
    /\ lookup.list = <<"standard">>
    /\ DOMAIN lastLoad.before = {"standard"}
    /\ DOMAIN fcFonts = {"doom", "standard"}

\* A step of a GenerateASCII call that is under way: its lookup.
GenerateSteps == gen' # gen

\* C23: GetFont, GetFontOrDefault, ListFonts and GenerateASCII leave the
\* contents of the cache as they were, whatever they return: no step of
\* any of them changes the mapping.
C23_ReadsLeaveCacheUnchanged ==
    [][(ReadReturns \/ GenerateSteps) => fcFonts' = fcFonts]_vars

\* GenerateASCII failed on a cache that holds a font, and the cache still
\* holds what the last LoadFonts call left.
C23_Witness ==
    /\ lookup.op = "GenerateASCII"
    /\ lookup.err = "no fonts loaded"
    /\ lastLoad.called
    /\ DOMAIN fcFonts = {"doom"}
    /\ fcFonts = LoadFonts(lastLoad.before, lastLoad.Path,
                           lastLoad.Allowed, fs).fonts

\* ------------------------------------------------------- GenerateASCII

\* The last read was a GenerateASCII call.
Generated == lookup.op = "GenerateASCII"

\* C25: GenerateASCII with a nil cache fails with 'font cache is nil' and
\* returns the empty output, for every text, the empty one included, and
\* every font option.
C25_NilCacheFails ==
    (Generated /\ cacheNil) =>
        lookup.err = "font cache is nil" /\ lookup.art = <<>>

\* GenerateASCII("", ...) was called with a nil cache and failed.
C25_Witness ==
    /\ Generated /\ cacheNil
    /\ lookup.text = ""
    /\ lookup.err = "font cache is nil"

\* C26 as stated: with a cache that exists and holds no font, GenerateASCII
\* fails with 'no fonts loaded' for every text and every font option.
C26_Original ==
    (Generated /\ ~cacheNil /\ fcFonts = EmptyFonts) =>
        lookup.err = "no fonts loaded"

\* C26 (amended): with a cache that exists and holds no font, GenerateASCII
\* fails with 'no fonts loaded' and the empty output for every text that is
\* not empty and every font option; for the empty text it returns the
\* empty output and no error.
C26_EmptyCacheFails ==
    (Generated /\ ~cacheNil /\ fcFonts = EmptyFonts) =>
        /\ lookup.art = <<>>
        /\ lookup.text # "" => lookup.err = "no fonts loaded"
        /\ lookup.text = "" => lookup.err = "nil"

\* GenerateASCII("HI", standard) failed on a cache without fonts.
C26_Witness ==
    /\ Generated /\ ~cacheNil /\ fcFonts = EmptyFonts
    /\ lookup.text = "HI"
    /\ lookup.name = "standard"
    /\ lookup.err = "no fonts loaded"

\* C27: GenerateASCII("", opts, cache) returns the empty output and no
\* error for every font option and every cache that is not nil, whatever
\* fonts it holds.
C27_EmptyTextNoError ==
    (Generated /\ ~cacheNil /\ lookup.text = "") =>
        lookup.art = <<>> /\ lookup.err = "nil"

\* The empty text was given with an unknown font to a cache without fonts.
C27_Witness ==
    /\ Generated /\ ~cacheNil /\ lookup.text = ""
    /\ lookup.name = "comic"
    /\ fcFonts = EmptyFonts
    /\ lookup.err = "nil"

\* C28: for every text, when opts.Font is not in the cache and the default
\* font is, GenerateASCII returns the output and the error it returns with
\* opts.Font set to the name of the default font.
\* The call with the default name is taken at the same moments: its
\* lookup reads the cache the call's lookup reads, and its rendering the
\* disk the call's rendering reads.
C28_FallbackSameAsDefault ==
    [][/\ (/\ ~gen.active
           /\ ReadReturns \/ GenerateSteps
           /\ ~cacheNil
           /\ RenderDefaultFont \in DOMAIN fcFonts) =>
            /\ (/\ lookup'.op = "GenerateASCII"
                /\ ReadReturns
                /\ lookup'.name \notin DOMAIN fcFonts) =>
                    \A d \in {GenerateASCIILookup(lookup'.text,
                                  RenderDefaultFont, cacheNil, fcFonts)} :
                        /\ d.returned
                        /\ lookup'.err = d.err
                        /\ lookup'.art = <<>>
            /\ (/\ gen'.active
                /\ gen'.name \notin DOMAIN fcFonts) =>
                    \A d \in {GenerateASCIILookup(gen'.text,
                                  RenderDefaultFont, cacheNil, fcFonts)} :
                        /\ ~d.returned
                        /\ gen'.font = d.font
       /\ gen.active =>
            \A r \in {GenerateASCIIRender(gen.font, gen.text, fs)} :
                ~gen'.active =>
                    /\ lookup'.res = gen.font
                    /\ lookup'.art = r.art
                    /\ lookup'.err = r.err]_vars

\* An unknown font was asked for and the text was rendered with the
\* default font.
C28_Witness ==
    /\ Generated /\ ~cacheNil
    /\ lookup.name = "comic"
    /\ lookup.text = "HI"
    /\ RenderDefaultFont \in DOMAIN fcFonts
    /\ lookup.res = fcFonts[RenderDefaultFont]
    /\ lookup.err = "nil"
    /\ lookup.art # <<>>

\* C29: for a text that is not empty and a cache that is not nil,
\* GenerateASCII fails with 'no fonts loaded' exactly when neither the font
\* asked for nor the configured default font (Fonts.Default) is in the
\* cache; when the configured default is there, an unknown font falls back
\* to it.
C29_FailsIffNoConfiguredDefault ==
    [][(/\ ~cacheNil
        /\ ~gen.active
        /\ ReadReturns \/ GenerateSteps) =>
            /\ (/\ ReadReturns
                /\ lookup'.op = "GenerateASCII"
                /\ lookup'.text # "") =>
                    /\ lookup'.err = "no fonts loaded"
                    /\ lookup'.name \notin DOMAIN fcFonts
                    /\ cfgDefault \notin DOMAIN fcFonts
            /\ gen'.active =>
                    /\ \/ gen'.name \in DOMAIN fcFonts
                       \/ cfgDefault \in DOMAIN fcFonts
                    /\ (/\ gen'.name \notin DOMAIN fcFonts
                        /\ cfgDefault \in DOMAIN fcFonts) =>
                            gen'.font = fcFonts[cfgDefault]]_vars

\* C30: two GenerateASCII calls with the same text that resolve to the same
\* cached font return the same art and the same error, whatever happened
\* to the font file on disk between them.
C30_Deterministic ==
    [][(/\ Generated
        /\ lookup'.op = "GenerateASCII"
        /\ lookup'.text = lookup.text
        /\ lookup.res # NilFont
        /\ lookup'.res = lookup.res) =>
            /\ lookup'.art = lookup.art
            /\ lookup'.err = lookup.err]_vars

\* ------------------------------------------------- the lock of the cache

\* The goroutines inside LoadFonts and inside a read of the cache.
LoadersInside == {g \in Loaders : lpc[g] = "loop"}
ReadersInside == {g \in Readers : lpc[g] \in {"locked", "read"}}

\* C24: readers may be inside the cache together, but never a reader
\* together with a LoadFonts call, nor two LoadFonts calls; so what a
\* reader reads is the contents left by the calls that have returned, which
\* is the contents before a call that has not and the complete contents
\* after one that has, never a cache a call has filled in part.
C24_SharedReadExclusiveWrite ==
    /\ Cardinality(LoadersInside) <= 1
    /\ LoadersInside # {} => ReadersInside = {}
    /\ \A g \in Readers : lpc[g] = "read" => seen[g] = committed

\* Two readers are inside at once, and they have read what a LoadFonts
\* call of two fonts left.
C24_Witness ==
    /\ Cardinality(ReadersInside) >= 2
    /\ \A g \in ReadersInside : lpc[g] = "read"
    /\ \E g \in ReadersInside : DOMAIN seen[g] = {"standard", "doom"}

\* ------------------------------------------- further claims on the parts

\* C38 (SpecCM): a ConnectionManager made with maxStreams <= 0 never
\* admits: as long as only TryAcquire is called, every call returns false
\* and activeStreams stays 0, however the calls interleave.
C38_NonPositiveCapacityNeverAdmits ==
    (maxStreams <= 0 /\ nReleased = 0) =>
        /\ activeStreams = 0
        /\ nTrue = 0
        /\ \A c \in Clients : ~cret[c]

\* All the calls allowed were TryAcquire calls on a manager of capacity 0,
\* and all have returned.
C38_Witness ==
    /\ maxStreams = 0
    /\ nReleased = 0
    /\ nCalls = MaxCalls
    /\ \A c \in Clients : cpc[c] = "idle"

\* C39 (SpecFonts): every entry of the cache is keyed by its own name: the
\* Font stored under k is not nil, its Name is k and its path is
\* <dir>/<k>.flf for a font directory, the directory of the last LoadFonts
\* call when that call registered k (k is in its allow-list and its file
\* there is valid), and the entry the call found otherwise.
C39_EntriesKeyedByName ==
    \A k \in DOMAIN fcFonts :
        /\ fcFonts[k] # NilFont
        /\ fcFonts[k].Name = k
        /\ \E dir \in LoadDirs : fcFonts[k].fontPath = FontPath(dir, k)
        /\ lastLoad.called
        /\ IF /\ k \in Range(lastLoad.Allowed)
              /\ FileOK(FontPath(lastLoad.Path, k), fs)
           THEN fcFonts[k].fontPath = FontPath(lastLoad.Path, k)
           ELSE k \in DOMAIN lastLoad.before
                    /\ fcFonts[k] = lastLoad.before[k]

\* standard was registered by the last call, from /alt, and doom by an
\* earlier one, from ./fonts.
C39_Witness ==
    /\ DOMAIN fcFonts = {"standard", "doom"}
    /\ lastLoad.Path = "/alt"
    /\ fcFonts["standard"].fontPath = FontPath("/alt", "standard")
    /\ fcFonts["doom"].fontPath = FontPath("./fonts", "doom")

\* C36 (SpecRender): when the file of the resolved font cannot be opened at
\* the time of the call (it was removed or locked after LoadFonts
\* registered it), GenerateASCII returns the empty output and the error
\* 'failed to render text', and the font stays registered.
C36_RenderFailureKeepsFont ==
    [][/\ (/\ gen.active /\ ~gen'.active
           /\ fs[gen.font.fontPath] \in {"absent", "noperm"}) =>
            /\ lookup'.op = "GenerateASCII"
            /\ lookup'.res = gen.font
            /\ lookup'.art = <<>>
            /\ lookup'.err = "failed to render text"
            /\ fcFonts' = fcFonts
       /\ (~gen.active /\ gen'.active) =>
            /\ gen'.font.Name \in DOMAIN fcFonts'
            /\ fcFonts'[gen'.font.Name] = gen'.font]_vars

\* The file of doom was removed after it was registered, and a rendering
\* with doom failed.
C36_Witness ==
    /\ Generated
    /\ lookup.name = "doom"
    /\ "doom" \in DOMAIN fcFonts
    /\ lookup.res = fcFonts["doom"]
    /\ fs[FontPath("./fonts", "doom")] = "absent"
    /\ lookup.err = "failed to render text"

\* C35 (Spec): the output of a stream has a fixed order. The screen clear
\* is written once, before everything else; every frame comes right after
\* a cursor-home and is flushed before anything else is written (the flush
\* succeeded and the counter has passed the frame, or it failed and the
\* writer exited with the frame as its last output); the colour reset is
\* written only on the exit by deadline and is then the last thing
\* written; a writer that has exited writes nothing more.
C35_StreamOutputOrder ==
    \A s \in Sessions :
        LET o == out[s]
            n == Len(o)
        IN /\ sw[s] \in {"none", "spawned"} => o = <<>>
           /\ sw[s] \in {"loop", "exited"} => (n >= 1 /\ o[1][1] = "clear")
           /\ \A i \in 2 .. n : o[i][1] # "clear"
           /\ \A i \in 1 .. n :
                /\ IsFrame(o[i]) =>
                    /\ i > 1 /\ o[i - 1][1] = "home"
                    /\ \/ frame[s] > o[i][2]
                       \/ sw[s] = "exited" /\ frame[s] = o[i][2] /\ i = n
                /\ o[i][1] = "home" => (i < n /\ IsFrame(o[i + 1]))
                /\ o[i][1] = "reset" => (i = n /\ sw[s] = "exited")
           /\ sw[s] = "exited" =>
                /\ o[n][1] = "reset" \/ (IsFrame(o[n]) /\ frame[s] = o[n][2])
                /\ ~ENABLED WriterStep(s)

\* A stream wrote the clear, one frame after a cursor-home, and then, at
\* its deadline, the colour reset.
C35_Witness ==
    \E s \in Sessions :
        /\ sw[s] = "exited"
        /\ out[s] = <<(<<"clear", 0>>), (<<"home", 0>>), (<<"frame", 0>>),
                      (<<"reset", 0>>)>>
\* ------------------------------------------------------- package config

\* The validation predicates, as the documentation of Config lists them.
InPortRange(n) == n >= 1 /\ n <= 65535
SatisfiesAll(c) ==
    /\ InPortRange(c["PublicPort"])
    /\ InPortRange(c["AdminPort"])
    /\ c["RequestsPerMinute"] >= 1
    /\ c["Burst"] >= 1
    /\ c["MaxLength"] >= 1
    /\ c["DefaultAlign"] \in {<<"left">>, <<"center">>, <<"right">>}
    /\ c["DefaultTimeout"] >= 1
    /\ c["MaxTimeout"] >= c["DefaultTimeout"]
    /\ c["DefaultSpeed"] >= 1 /\ c["DefaultSpeed"] <= 10

\* The calls that return what Load returns.
LoadOps == {"Load", "MustLoad", "LoadFromEnv"}

\* The variables the function of Load reads when a call of op starts in
\* package state c: those of envVars for LoadFromEnv, and otherwise the
\* environment with the variables of the .env file it does not hold.
LoadedFrom(c, op, given) ==
    IF op = "LoadFromEnv" THEN given ELSE DotenvLoad(c.env, c.dotenv)

\* The step is a call that ran the function of Load.
RanLoadBody ==
    /\ conf'.last.op \in LoadOps
    /\ conf'.last.op = "LoadFromEnv" \/ ~conf.done

\* C34 (SpecConfigSeq): a Config that Load, MustLoad or LoadFromEnv hands
\* out without error satisfies every validation predicate, and a call
\* that parses variables into a Config violating one of them returns an
\* error.
C34_LoadedConfigIsValid ==
    /\ [](conf.last.op \in LoadOps /\ conf.last.err = "nil"
            => /\ ~conf.last.instance.isNil
               /\ SatisfiesAll(conf.last.instance.c))
    /\ [][RanLoadBody =>
            \A p \in {EnvParse(LoadedFrom(conf, conf'.last.op,
                                          conf'.last.given))} :
                p.ok /\ ~SatisfiesAll(p.cfg) => conf'.last.err # "nil"]_vars
C34_Witness ==
    /\ conf.last.op = "Load"
    /\ conf.last.err = "nil"
    /\ conf.last.instance.c["PublicPort"] = 65535
    /\ conf.last.instance.c["DefaultSpeed"] = 5

\* C37 (SpecConfigSeq): when LoadFromEnv(envVars) has returned, with or
\* without an error, the environment holds the variables and values it
\* held before the call, and what was returned is what parsing and
\* validating the variables of envVars alone gives.
C37_LoadFromEnvRestoresEnvironment ==
    conf.last.op = "LoadFromEnv" =>
        /\ conf.env = conf.last.envBefore
        /\ \A p \in {EnvParse(conf.last.given)} :
            /\ conf.last.err = "nil" <=> p.ok /\ SatisfiesAll(p.cfg)
            /\ conf.last.err = "nil" =>
                    /\ ~conf.last.instance.isNil
                    /\ conf.last.instance.c = p.cfg
            /\ conf.last.err # "nil" => conf.last.instance.isNil
C37_Witness ==
    /\ conf.last.op = "LoadFromEnv"
    /\ conf.last.err = "nil"
    /\ conf.last.instance.c["PublicPort"] = 5000
    /\ EnvName("PublicPort") \in DOMAIN conf.env
    /\ conf.env[EnvName("PublicPort")] = <<"6", "5", "5", "3", "6">>
    /\ conf.env["OTHER"] = <<"a", "=", "b">>

\* What parsing and validating environment env gives as the error of Load.
ExpectedErr(env) ==
    IF ~EnvParse(env).ok THEN "failed to parse environment variables"
    ELSE IF ~SatisfiesAll(EnvParse(env).cfg)
         THEN "configuration validation failed"
         ELSE "nil"

\* C31 (SpecConfig): once the function of Load has run to its end, a
\* non-nil instance comes with a nil loadErr; every Load returns either a
\* Config and no error or no Config and an error, the error being there
\* exactly when parsing or validating the environment fails, and after a
\* failed Load the singleton instance is nil.
C31_ConfigOrErrorNeverBoth ==
    /\ conf.done /\ ~conf.instance.isNil => conf.loadErr = "nil"
    /\ conf.last.op = "Load" =>
        /\ conf.last.err = "nil" => ~conf.last.instance.isNil
        /\ conf.last.err # "nil" =>
                conf.last.instance.isNil /\ conf.instance.isNil
        /\ ~conf.changed => conf.last.err = ExpectedErr(conf.env)
C31_Witness ==
    /\ conf.last.op = "Load"
    /\ conf.last.err = "configuration validation failed"
    /\ conf.last.instance.isNil
    /\ conf.allocs = 1
    /\ \E g \in Callers : conf.cpos[g] = "return"

\* C32 (SpecConfig): between two Resets the function of Load is entered
\* at most once, however the goroutines calling Load interleave, and a
\* Load, MustLoad or Get made after a Load has returned gives what that
\* Load gave - the same instance and error, a panic of MustLoad or Get
\* standing for the error - also when the environment has changed since.
C32_LoadsOnce ==
    /\ conf.bodyRuns <= 1
    /\ conf.last.afterFirst =>
        /\ conf.last.op = "Load" =>
            /\ conf.last.instance = conf.first.instance
            /\ conf.last.err = conf.first.err
        /\ conf.last.op = "MustLoad" =>
            /\ conf.last.panicked <=> conf.first.err # "nil"
            /\ conf.last.err = conf.first.err
            /\ ~conf.last.panicked =>
                    conf.last.instance = conf.first.instance
        /\ conf.last.op = "Get" =>
            /\ conf.last.panicked <=> conf.first.err # "nil"
            /\ ~conf.last.panicked =>
                    conf.last.instance = conf.first.instance
C32_Witness ==
    /\ conf.last.op = "Get"
    /\ conf.last.afterFirst
    /\ conf.last.envChanged
    /\ ~conf.last.panicked
    /\ conf.last.instance.c["PublicPort"] = 8080
    /\ EnvName("PublicPort") \in DOMAIN conf.env
    /\ conf.env[EnvName("PublicPort")] = <<"-", "1">>
    /\ conf.bodyRuns = 1

\* C33 as claimed (SpecConfig): Get returns the instance exactly when a
\* Load made since the last Reset has succeeded and panics otherwise;
\* MustLoad panics exactly when Load returns an error and returns a
\* non-nil Config otherwise.
C33_GetReturnsIffLoadSucceeded ==
    /\ conf.last.op = "Get" =>
            (~conf.last.panicked <=> conf.last.loadOk)
    /\ conf.last.op = "MustLoad" =>
            /\ conf.last.panicked <=> conf.last.err # "nil"
            /\ ~conf.last.panicked => ~conf.last.instance.isNil

====
